---- MODULE Spec2Model ----
(***************************************************************************)
(* NewsFlash: the language/sentiment fallback and retry pipeline           *)
(* (error_handler.py) together with its callers (news_service.py,          *)
(* tts_service.py) and the language catalog (language_service.py).         *)
(*                                                                         *)
(* A call is executed on an explicit call stack: every decorator wrapper   *)
(* and every function body is a frame, an invocation pushes a frame and a  *)
(* return or raise pops it and hands the outcome to the caller in ret.     *)
(* External calls (LLM, TTS engine, the abstract unit of work "func")      *)
(* choose their outcome nondeterministically.                              *)
(*                                                                         *)
(* Python strings that the code inspects (language codes, article text)    *)
(* are sequences of one-character strings; error messages are sequences    *)
(* of tokens, one token per message fragment, so that wrapping an error    *)
(* keeps the fragments of the wrapped one, as f"...: {e}" does.            *)
(***************************************************************************)
EXTENDS Integers, Sequences, FiniteSets, TLC

VARIABLES cfg, entry, stack, ret, calls, ext, log, sleeps, session, conversation

vars == <<cfg, entry, stack, ret, calls, ext, log, sleeps, session, conversation>>

(***************************************************************************)
(* Bounds                                                                  *)
(***************************************************************************)
\* largest explicit max_attempts argument given to with_retry
MaxAttemptsArg == 3

(***************************************************************************)
(* Python values                                                           *)
(***************************************************************************)
NoneVal == <<"<None>">>
NotAStr == <<"<int>">>
SelfObj == <<"<self>">>
NoneInt == -1

\* the session of a client that has sent no cookie
NoSession == [k \in {} |-> NoneVal]

\* no conversation state yet: current_state is None
NoConversation == [none |-> TRUE]

Range(s) == {s[i] : i \in DOMAIN s}

\* str.lower() on one character
LowerChar(c) ==
    CASE c = "E" -> "e" [] c = "N" -> "n" [] c = "H" -> "h" [] c = "I" -> "i"
      [] c = "M" -> "m" [] c = "R" -> "r" [] c = "X" -> "x" [] OTHER -> c

\* str.lower()
Lower(s) == CHOOSE r \in {[i \in DOMAIN t |-> LowerChar(t[i])] : t \in {s}} : TRUE

\* the positions of s that hold no blank
NonBlank(s) == {i \in DOMAIN s : s[i] # " "}

Min(S) == CHOOSE x \in S : \A y \in S : x <= y
Max(S) == CHOOSE x \in S : \A y \in S : x >= y

LStrip(s) == IF NonBlank(s) = {} THEN <<>> ELSE SubSeq(s, Min(NonBlank(s)), Len(s))

RStrip(s) == IF NonBlank(s) = {} THEN <<>> ELSE SubSeq(s, 1, Max(NonBlank(s)))

\* str.strip()
Strip(s) == CHOOSE r \in {RStrip(u) : u \in {LStrip(t) : t \in {s}}} : TRUE


\* bool(x) for a value that is None, a non-string object or a string
Truthy(x) == x # NoneVal /\ x # <<>>

IsStr(x) == x # NoneVal /\ x # NotAStr

\* the string of n characters c
Rep(c, n) == [i \in 1 .. n |-> c]

(***************************************************************************)
(* language_service.py                                                     *)
(***************************************************************************)
EN == <<"e", "n">>
HI == <<"h", "i">>
MR == <<"m", "r">>

SUPPORTED_LANGUAGES == {EN, HI, MR}

DEFAULT_LANGUAGE == EN

get_default_language == DEFAULT_LANGUAGE

validate_language(language_code) ==
    IF ~Truthy(language_code) \/ ~IsStr(language_code)
    THEN FALSE
    ELSE Strip(Lower(language_code)) \in SUPPORTED_LANGUAGES

\* a faulty variant: the code is handed back without being validated
get_fallback_language_unvalidated(language_code) == Lower(language_code)

get_fallback_language(language_code) ==
    IF validate_language(language_code)
    THEN Lower(language_code)
    ELSE DEFAULT_LANGUAGE

get_tts_code(language_code) ==
    IF ~validate_language(language_code)
    THEN NoneVal
    ELSE IF Lower(language_code) \in SUPPORTED_LANGUAGES
         THEN Lower(language_code)
         ELSE <<"<KeyError>">>

(***************************************************************************)
(* config.py                                                               *)
(***************************************************************************)
MAX_RETRY_ATTEMPTS == 3
RETRY_DELAY == 1
RATE_LIMIT_DELAY == 2
AI_SUMMARY_MIN_LENGTH == 150
TTS_MAX_ATTEMPTS == 2
SENTIMENT_MIN_LENGTH == 20
FALLBACK_SUMMARY_MAX_LENGTH == 200

\* the flags that tests and deployments switch
Configs ==
    [ENABLE_FALLBACK_LOGGING : BOOLEAN,
     SENTIMENT_FALLBACK_ENABLED : BOOLEAN,
     LANGUAGE_FALLBACK_ENABLED : BOOLEAN,
     USE_AI_SUMMARY : BOOLEAN]

(***************************************************************************)
(* Exceptions                                                              *)
(***************************************************************************)
NoExc == [type |-> "none", msg |-> <<>>]

Exc(type, msg) == [type |-> type, msg |-> msg]

\* the token lists of _is_retryable_error
retryable_indicators ==
    {"timeout", "connection", "network", "temporary", "503", "502", "500",
     "rate limit", "429", "quota exceeded", "service unavailable"}

non_retryable_indicators ==
    {"401", "403", "404", "invalid api key", "authentication", "authorization",
     "bad request", "400", "not found"}

\* a faulty variant: every error is retried
is_retryable_error_always(error) == TRUE

\* a faulty variant: the message is inspected as it is written
lower_token_unchanged(t) == t

\* str.lower() on one fragment of a message
lower_token(t) ==
    CASE t = "TIMEOUT" -> "timeout"
      [] t = "Rate Limit" -> "rate limit"
      [] t = "Invalid API Key" -> "invalid api key"
      [] t = "Not Found" -> "not found"
      [] OTHER -> t

\* error_str = str(error).lower()
error_str(error) == [i \in DOMAIN error.msg |-> lower_token(error.msg[i])]

_is_retryable_error(error) ==
    IF \E i \in DOMAIN error.msg : error_str(error)[i] \in non_retryable_indicators
    THEN FALSE
    ELSE IF \E i \in DOMAIN error.msg : error_str(error)[i] \in retryable_indicators
         THEN TRUE
         ELSE TRUE

\* "429" in str(e) or "quota" in str(e).lower()
IsRateLimitText(error) ==
    \E i \in DOMAIN error.msg : error.msg[i] \in {"429", "quota exceeded"}

(***************************************************************************)
(* Return values.  A Python value handed back by a function is a record    *)
(* whose field names tell its shape.                                       *)
(***************************************************************************)
PyNone == [none |-> TRUE]
PySentiment(s) == [sentiment |-> s]
PyBool(b) == [bool |-> b]

SentimentValues == {"positive", "negative", "neutral"}

NoRet == [kind |-> "none", val |-> PyNone, exc |-> NoExc]
RetValue(v) == [kind |-> "value", val |-> v, exc |-> NoExc]
RetExc(e) == [kind |-> "exc", val |-> PyNone, exc |-> e]

(***************************************************************************)
(* ErrorHandler: each operator gives the log sink after the call           *)
(***************************************************************************)
LogRecord(cat, operation, language, error, fallback_used, retry_count) ==
    [cat |-> cat, operation |-> operation, language |-> language,
     error |-> error, fallback_used |-> fallback_used,
     retry_count |-> retry_count]

log_language_error(l, operation, language, error, fallback_used) ==
    IF cfg.ENABLE_FALLBACK_LOGGING
    THEN Append(l, LogRecord("language", operation, language, error, fallback_used, 0))
    ELSE l

\* a faulty variant: the sentiment record is written whatever the flag says
log_sentiment_error_unconditional(l, operation, error, fallback_used) ==
    Append(l, LogRecord("sentiment", operation, NoneVal, error, fallback_used, 0))

log_sentiment_error(l, operation, error, fallback_used) ==
    IF cfg.ENABLE_FALLBACK_LOGGING
    THEN Append(l, LogRecord("sentiment", operation, NoneVal, error, fallback_used, 0))
    ELSE l

\* "429" in str(error) or "quota" in error_str or "rate limit" in error_str
is_rate_limit_error(error) ==
    \/ \E i \in DOMAIN error.msg : error.msg[i] = "429"
    \/ \E i \in DOMAIN error.msg : error_str(error)[i] \in {"quota exceeded", "rate limit"}

\* a faulty variant: the record does not carry the attempt
log_ai_service_error_uncounted(l, operation, error, retry_count) ==
    Append(l, LogRecord(IF is_rate_limit_error(error) THEN "rate_limit" ELSE "ai_service",
                        operation, NoneVal, error, NoneVal, 0))

\* no test of Config.ENABLE_FALLBACK_LOGGING here
log_ai_service_error(l, operation, error, retry_count) ==
    Append(l, LogRecord(IF is_rate_limit_error(error) THEN "rate_limit" ELSE "ai_service",
                        operation, NoneVal, error, NoneVal, retry_count))

log_tts_error(l, operation, language, error, fallback_used) ==
    IF cfg.ENABLE_FALLBACK_LOGGING
    THEN Append(l, LogRecord("tts", operation, language, error, fallback_used, 0))
    ELSE l

(***************************************************************************)
(* Callables.  A decorated function is a chain of wrappers around a body:  *)
(* Kind says which code runs for a callable name, Inner which callable the *)
(* wrapper closes over.                                                    *)
(***************************************************************************)
Kind(fn) ==
    CASE fn \in {"analyze_sentiment", "sentiment_func"} -> "with_sentiment_fallback"
      [] fn \in {"analyze_sentiment/1", "language_func"} -> "with_language_fallback"
      [] fn \in {"analyze_sentiment/2", "retry_func",
                 "_generate_summary_with_sentiment_for_language",
                 "_generate_summary_for_language",
                 "_generate_tts_for_language"} -> "with_retry"
      [] OTHER -> fn

Inner(fn) ==
    CASE fn = "analyze_sentiment" -> "analyze_sentiment/1"
      [] fn = "analyze_sentiment/1" -> "analyze_sentiment/2"
      [] fn = "analyze_sentiment/2" -> "analyze_sentiment/body"
      [] fn = "sentiment_func" -> "func"
      [] fn = "retry_func" -> "func"
      [] fn = "_generate_summary_with_sentiment_for_language" ->
             "_generate_summary_with_sentiment_for_language/body"
      [] fn = "_generate_summary_for_language" -> "_generate_summary_for_language/body"
      [] fn = "_generate_tts_for_language" -> "_generate_tts_for_language/body"
      [] OTHER -> "func"

\* max_attempts = max_attempts or Config.MAX_RETRY_ATTEMPTS
with_retry_max_attempts(max_attempts) ==
    IF max_attempts = NoneInt \/ max_attempts = 0
    THEN MAX_RETRY_ATTEMPTS ELSE max_attempts

\* base_delay = base_delay or Config.RETRY_DELAY
with_retry_base_delay(base_delay) ==
    IF base_delay = NoneInt \/ base_delay = 0 THEN RETRY_DELAY ELSE base_delay

\* the decorator arguments of each @with_retry(...) in the source; e is the
\* call that decorates the generic unit of work
RetryArgs(fn, e) ==
    CASE fn = "retry_func" ->
             [max_attempts |-> e.max_attempts, base_delay |-> e.base_delay,
              exponential_backoff |-> e.exponential_backoff]
      [] fn = "_generate_tts_for_language" ->
             [max_attempts |-> TTS_MAX_ATTEMPTS, base_delay |-> NoneInt,
              exponential_backoff |-> TRUE]
      [] OTHER ->
             [max_attempts |-> NoneInt, base_delay |-> NoneInt,
              exponential_backoff |-> TRUE]

\* the decorator argument of each @with_sentiment_fallback(...)
SentimentFallbackArg(fn, e) ==
    IF fn = "sentiment_func" THEN e.fallback_sentiment ELSE "neutral"

(***************************************************************************)
(* Frames                                                                  *)
(***************************************************************************)
NoKw == [has |-> FALSE, language |-> NoneVal]
Kw(language) == [has |-> TRUE, language |-> language]

Frame(fn, args, kw, aux) ==
    [fn |-> fn, pc |-> "start", args |-> args, kw |-> kw, n |-> 0,
     last |-> NoExc, aux |-> aux]

Top == stack[Len(stack)]
Below == SubSeq(stack, 1, Len(stack) - 1)

At(kind, pc) == stack # <<>> /\ Kind(Top.fn) = kind /\ Top.pc = pc

\* the language a callee is invoked with, whichever way it is passed
PassedLanguage(args, kw, pos) ==
    IF kw.has THEN kw.language
    ELSE IF Len(args) >= pos THEN args[pos] ELSE NoneVal

CallRecord(fn, args, kw, by) ==
    [fn |-> fn, args |-> args, kw |-> kw, by |-> by]

\* the running frame continues as top and invokes callee
Invoke(top, callee, by) ==
    /\ stack' = Append(Below, top) \o <<callee>>
    /\ ret' = NoRet
    /\ calls' = Append(calls, CallRecord(callee.fn, callee.args, callee.kw, by))

Return(v) == stack' = Below /\ ret' = RetValue(v)
Raise(e) == stack' = Below /\ ret' = RetExc(e)
Continue(top) == stack' = Append(Below, top) /\ ret' = NoRet

(***************************************************************************)
(* Inputs                                                                  *)
(***************************************************************************)
\* requested language codes: supported, upper-case, padded, unsupported,
\* empty, None, not a string
LanguageInputs ==
    {EN, HI, <<"H", "I">>, <<" ", "h", "i", " ">>, <<"x", "x">>, <<>>,
     NoneVal, NotAStr}

\* what the external call (LLM, TTS engine, the unit of work) can raise:
\* transient, rate limit, fatal, unclassified
ExternalErrors ==
    {Exc("Exception", <<"timeout">>), Exc("Exception", <<"429">>),
     Exc("Exception", <<"401">>), Exc("Exception", <<"boom">>)}

NoEntry ==
    [op |-> "none", language |-> NoneVal, text |-> <<>>, title |-> <<>>,
     transient |-> "timeout",
     max_attempts |-> NoneInt, base_delay |-> NoneInt,
     exponential_backoff |-> TRUE, fallback_sentiment |-> "neutral",
     args |-> <<>>, kw |-> NoKw]

Done == entry.op # "none" /\ stack = <<>>

(***************************************************************************)
(* The unit of work of the generic wrappers: any callable.  It returns a   *)
(* value that names the language it was invoked with, or raises.           *)
(***************************************************************************)
FuncResult(result, kw) == [result |-> result, language |-> kw.language]

\* one invocation of an external service or of the unit of work: the language
\* it was made for, its outcome, and how many calls the wrappers had made
ApiCall(api, language, out) ==
    [api |-> api, language |-> language, out |-> out, at |-> Len(calls)]

func ==
    /\ At("func", "start")
    /\ \E o \in {RetValue(IF Top.kw.has THEN FuncResult(r, Top.kw) ELSE PySentiment(r)) :
                   r \in {"positive", "neutral"}}
                \cup {RetExc(e) : e \in ExternalErrors} :
         /\ ext' = Append(ext, ApiCall("func", Top.kw.language, o))
         /\ stack' = Below
         /\ ret' = o
    /\ UNCHANGED <<cfg, entry, calls, log, sleeps>>
    /\ UNCHANGED <<session, conversation>>

(***************************************************************************)
(* with_retry.wrapper (error_handler.py 180-201)                           *)
(***************************************************************************)
AllRetriesFailed(last_exception) ==
    Exc("AIServiceError", <<"All retry attempts failed in">> \o last_exception.msg)

\* a faulty variant: one attempt too many
retry_in_range_off_by_one(attempt, max_attempts) == attempt <= max_attempts

\* for attempt in range(max_attempts)
retry_in_range(attempt, max_attempts) == attempt < max_attempts

\* a faulty variant: the exponent runs one ahead
retry_delay_doubled(base_delay, attempt, exponential_backoff) ==
    IF exponential_backoff THEN base_delay * (2 ^ (attempt + 1)) ELSE base_delay

\* delay = base_delay * (2 ** attempt) if exponential_backoff else base_delay
retry_delay(base_delay, attempt, exponential_backoff) ==
    IF exponential_backoff THEN base_delay * (2 ^ attempt) ELSE base_delay

RetryFrame(fn, args, kw, e) ==
    Frame(fn, args, kw,
          [max_attempts |-> with_retry_max_attempts(RetryArgs(fn, e).max_attempts),
           base_delay |-> with_retry_base_delay(RetryArgs(fn, e).base_delay),
           exponential_backoff |-> RetryArgs(fn, e).exponential_backoff])

\* the head of the for loop: the next attempt, or the raise after the loop
with_retry_attempt ==
    /\ At("with_retry", "start")
    /\ IF retry_in_range(Top.n, Top.aux.max_attempts)
       THEN Invoke([Top EXCEPT !.pc = "wait"],
                   Frame(Inner(Top.fn), Top.args, Top.kw, <<>>), Top.fn)
       ELSE Raise(AllRetriesFailed(Top.last)) /\ UNCHANGED calls
    /\ UNCHANGED <<cfg, entry, ext, log, sleeps>>
    /\ UNCHANGED <<session, conversation>>

\* a faulty variant: a returned value does not leave the loop
attempt_returned_never(r) == FALSE

\* return func(*args, **kwargs) came back without an exception
attempt_returned(r) == r.kind = "value"

\* a faulty variant: time.sleep(delay) never returns
retry_resumes_asleep == "asleep"

\* after time.sleep(delay) the for loop goes on with its next iteration
retry_resumes == "start"

\* return func(...) and the except clause of one attempt
with_retry_outcome ==
    /\ At("with_retry", "wait") /\ ret.kind # "none"
    /\ IF attempt_returned(ret)
       THEN Return(ret.val) /\ UNCHANGED <<log, sleeps>>
       ELSE IF ~_is_retryable_error(ret.exc)
       THEN Raise(ret.exc) /\ UNCHANGED <<log, sleeps>>
       ELSE /\ log' = log_ai_service_error(log, Top.fn, ret.exc, Top.n + 1)
            /\ sleeps' = IF Top.n < Top.aux.max_attempts - 1
                         THEN Append(sleeps,
                                [by |-> "with_retry",
                                 delay |-> retry_delay(Top.aux.base_delay, Top.n,
                                                       Top.aux.exponential_backoff)])
                         ELSE sleeps
            /\ Continue([Top EXCEPT !.pc = retry_resumes, !.n = @ + 1, !.last = ret.exc])
    /\ UNCHANGED <<cfg, entry, calls, ext>>

    /\ UNCHANGED <<session, conversation>>

\* a call of a function decorated with @with_retry(max_attempts, base_delay, ...)
call_with_retry ==
    /\ entry.op = "none"
    /\ \E m \in {NoneInt} \cup (0 .. MaxAttemptsArg), d \in {NoneInt, 0, 3}, x \in BOOLEAN :
         LET e == [NoEntry EXCEPT !.op = "with_retry", !.max_attempts = m,
                                  !.base_delay = d, !.exponential_backoff = x]
         IN /\ entry' = e
            /\ stack' = <<RetryFrame("retry_func", <<>>, NoKw, e)>>
    /\ UNCHANGED <<cfg, ret, calls, ext, log, sleeps>>
    /\ UNCHANGED <<session, conversation>>

(***************************************************************************)
(* FallbackManager (error_handler.py 243-304)                              *)
(***************************************************************************)
\* a faulty variant: the default language is put first
get_language_fallback_chain_default_first(requested_language) ==
    IF validate_language(requested_language)
         /\ Lower(requested_language) # get_default_language
    THEN <<get_default_language, Lower(requested_language)>>
    ELSE <<get_default_language>>

get_language_fallback_chain(requested_language) ==
    LET chain == IF validate_language(requested_language)
                 THEN <<Lower(requested_language)>>
                 ELSE <<>>
        default_lang == get_default_language
    IN IF default_lang \notin Range(chain) THEN Append(chain, default_lang) ELSE chain

\* a faulty variant: the substitute sentiment is not the neutral one
get_sentiment_fallback_positive == "positive"

get_sentiment_fallback == "neutral"

(***************************************************************************)
(* Frame of a callee, by the code that runs for it                         *)
(***************************************************************************)
NewFrame(fn, args, kw, e) ==
    CASE Kind(fn) = "with_retry" -> RetryFrame(fn, args, kw, e)
      [] Kind(fn) = "with_sentiment_fallback" ->
             Frame(fn, args, kw, [fallback_sentiment |-> SentimentFallbackArg(fn, e)])
      [] OTHER -> Frame(fn, args, kw, <<>>)

\* handle_language_operation(operation_name, language, operation_func, *args)
LanguageOperationFrame(operation_name, language, operation_func, args) ==
    Frame("handle_language_operation", args, NoKw,
          [operation_name |-> operation_name, language |-> language,
           operation_func |-> operation_func,
           fallback_chain |-> get_language_fallback_chain(language)])

\* handle_sentiment_operation(operation_name, operation_func, *args)
SentimentOperationFrame(operation_name, operation_func, args) ==
    Frame("handle_sentiment_operation", args, NoKw,
          [operation_name |-> operation_name, operation_func |-> operation_func])

\* a bound method receives self before the arguments of the call
BoundArgs(fn, args) ==
    IF fn \in {"func", "retry_func"} THEN args ELSE <<SelfObj>> \o args

(***************************************************************************)
(* handle_language_operation (error_handler.py 307-330)                    *)
(***************************************************************************)
AllLanguageFallbacksFailed(where, e) ==
    Exc("LanguageError", <<"All language fallbacks failed", where>> \o e.msg)

\* a faulty variant: the first language of the chain is taken for the last
is_last_language_first(lang, fallback_chain) == lang = fallback_chain[1]

\* if lang == fallback_chain[-1]
is_last_language(lang, fallback_chain) == lang = fallback_chain[Len(fallback_chain)]

\* a faulty variant: every candidate is invoked with the first language of the chain
candidate_kwargs_first(fallback_chain, i) == Kw(fallback_chain[1])

\* operation_func(*args, language=lang, **kwargs) for the i-th candidate
candidate_kwargs(fallback_chain, i) == Kw(fallback_chain[i])

\* the head of the for loop over the fallback chain
handle_language_operation_attempt ==
    /\ At("handle_language_operation", "start")
    /\ IF Top.n < Len(Top.aux.fallback_chain)
       THEN Invoke([Top EXCEPT !.pc = "wait"],
                   NewFrame(Top.aux.operation_func,
                            BoundArgs(Top.aux.operation_func, Top.args),
                            candidate_kwargs(Top.aux.fallback_chain, Top.n + 1), entry),
                   Top.fn)
       ELSE /\ Raise(Exc("LanguageError", <<"No valid languages in fallback chain">>))
            /\ UNCHANGED calls
    /\ UNCHANGED <<cfg, entry, ext, log, sleeps>>
    /\ UNCHANGED <<session, conversation>>

\* return operation_func(...) and the except clause for one candidate
handle_language_operation_outcome ==
    /\ At("handle_language_operation", "wait") /\ ret.kind # "none"
    /\ LET lang == Top.aux.fallback_chain[Top.n + 1] IN
       IF ret.kind = "value"
       THEN Return(ret.val) /\ UNCHANGED log
       ELSE /\ log' = log_language_error(log, Top.aux.operation_name, lang, ret.exc, NoneVal)
            /\ IF is_last_language(lang, Top.aux.fallback_chain)
               THEN Raise(AllLanguageFallbacksFailed(Top.aux.operation_name, ret.exc))
               ELSE Continue([Top EXCEPT !.pc = "start", !.n = @ + 1])
    /\ UNCHANGED <<cfg, entry, calls, ext, sleeps>>
    /\ UNCHANGED <<session, conversation>>

\* a call of handle_language_operation on a unit of work
call_handle_language_operation ==
    /\ entry.op = "none"
    /\ \E l \in LanguageInputs :
         /\ entry' = [NoEntry EXCEPT !.op = "handle_language_operation", !.language = l]
         /\ stack' = <<LanguageOperationFrame("test_op", l, "func", <<>>)>>
    /\ UNCHANGED <<cfg, ret, calls, ext, log, sleeps>>
    /\ UNCHANGED <<session, conversation>>

\* a call of handle_language_operation on a unit of work decorated with
\* @with_retry(max_attempts)
call_handle_language_operation_over_retry ==
    /\ entry.op = "none"
    /\ \E l \in LanguageInputs, m \in {1, 2} :
         /\ entry' = [NoEntry EXCEPT !.op = "handle_language_operation_over_retry",

                                     !.language = l, !.max_attempts = m]
         /\ stack' = <<LanguageOperationFrame("test_op", l, "retry_func", <<>>)>>
    /\ UNCHANGED <<cfg, ret, calls, ext, log, sleeps>>
    /\ UNCHANGED <<session, conversation>>

(***************************************************************************)
(* with_sentiment_fallback.wrapper (143-164), handle_sentiment_operation   *)
(* (332-353)                                                               *)
(***************************************************************************)
SentimentAnalysisFailed(where, e) ==
    Exc("SentimentAnalysisError", <<"Sentiment analysis failed", where>> \o e.msg)

\* a faulty variant: the fallback is applied whatever the flag says
sentiment_fallback_enabled_always(c) == TRUE

\* if Config.SENTIMENT_FALLBACK_ENABLED
sentiment_fallback_enabled(c) == c.SENTIMENT_FALLBACK_ENABLED

with_sentiment_fallback_call ==
    /\ At("with_sentiment_fallback", "start")
    /\ Invoke([Top EXCEPT !.pc = "wait"],
              NewFrame(Inner(Top.fn), Top.args, Top.kw, entry), Top.fn)
    /\ UNCHANGED <<cfg, entry, ext, log, sleeps>>
    /\ UNCHANGED <<session, conversation>>

with_sentiment_fallback_outcome ==
    /\ At("with_sentiment_fallback", "wait") /\ ret.kind # "none"
    /\ IF ret.kind = "value"
       THEN Return(ret.val) /\ UNCHANGED log
       ELSE IF sentiment_fallback_enabled(cfg)
       THEN /\ log' = log_sentiment_error(log, Top.fn, ret.exc, Top.aux.fallback_sentiment)
            /\ Return(PySentiment(Top.aux.fallback_sentiment))
       ELSE /\ log' = log_sentiment_error(log, Top.fn, ret.exc, "neutral")
            /\ Raise(SentimentAnalysisFailed("in", ret.exc))
    /\ UNCHANGED <<cfg, entry, calls, ext, sleeps>>
    /\ UNCHANGED <<session, conversation>>

handle_sentiment_operation_call ==
    /\ At("handle_sentiment_operation", "start")
    /\ Invoke([Top EXCEPT !.pc = "wait"],
              NewFrame(Top.aux.operation_func, Top.args, Top.kw, entry), Top.fn)
    /\ UNCHANGED <<cfg, entry, ext, log, sleeps>>
    /\ UNCHANGED <<session, conversation>>

handle_sentiment_operation_outcome ==
    /\ At("handle_sentiment_operation", "wait") /\ ret.kind # "none"
    /\ IF ret.kind = "value"
       THEN Return(ret.val) /\ UNCHANGED log
       ELSE IF sentiment_fallback_enabled(cfg)
       THEN /\ log' = log_sentiment_error(log, Top.aux.operation_name, ret.exc,
                                          get_sentiment_fallback)
            /\ Return(PySentiment(get_sentiment_fallback))
       ELSE /\ log' = log_sentiment_error(log, Top.aux.operation_name, ret.exc, "neutral")
            /\ Raise(SentimentAnalysisFailed("for", ret.exc))
    /\ UNCHANGED <<cfg, entry, calls, ext, sleeps>>
    /\ UNCHANGED <<session, conversation>>

\* a call of a function decorated with @with_sentiment_fallback(fallback_sentiment)
call_with_sentiment_fallback ==
    /\ entry.op = "none"
    /\ \E f \in SentimentValues :
         LET e == [NoEntry EXCEPT !.op = "with_sentiment_fallback",
                                  !.fallback_sentiment = f]
         IN /\ entry' = e
            /\ stack' = <<NewFrame("sentiment_func", <<>>, NoKw, e)>>
    /\ UNCHANGED <<cfg, ret, calls, ext, log, sleeps>>
    /\ UNCHANGED <<session, conversation>>

\* a call of handle_sentiment_operation on a unit of work
call_handle_sentiment_operation ==
    /\ entry.op = "none"
    /\ entry' = [NoEntry EXCEPT !.op = "handle_sentiment_operation"]
    /\ stack' = <<SentimentOperationFrame("test_op", "func", <<>>)>>
    /\ UNCHANGED <<cfg, ret, calls, ext, log, sleeps>>
    /\ UNCHANGED <<session, conversation>>

(***************************************************************************)
(* with_language_fallback.wrapper (error_handler.py 89-138).  Python's     *)
(* args[2] is the third element of args.                                   *)
(***************************************************************************)
\* language = kwargs.get('language') or (args[2] if len(args) > 2 else None)
\* if not language: language = LanguageService.get_default_language()
extracted_language(args, kw) ==
    LET by_name == IF kw.has THEN kw.language ELSE NoneVal
        language == IF Truthy(by_name) THEN by_name
                    ELSE IF Len(args) > 2 THEN args[3] ELSE NoneVal
    IN IF ~Truthy(language) THEN get_default_language ELSE language

\* a faulty variant: the positional language is left as it was
with_language_args_unchanged(args, kw, l) == args

\* if 'language' in kwargs: kwargs['language'] = l
\* elif len(args) > 2: args[2] = l
with_language_args(args, kw, l) ==
    IF ~kw.has /\ Len(args) > 2 THEN [args EXCEPT ![3] = l] ELSE args

with_language_kwargs(args, kw, l) == IF kw.has THEN Kw(l) ELSE kw

with_language_fallback_call ==
    /\ At("with_language_fallback", "start")
    /\ LET target_language == get_fallback_language(extracted_language(Top.args, Top.kw))
           args == with_language_args(Top.args, Top.kw, target_language)
           kw == with_language_kwargs(Top.args, Top.kw, target_language)
       IN Invoke([Top EXCEPT !.pc = "wait", !.args = args, !.kw = kw,
                             !.aux = [target_language |-> target_language]],
                 NewFrame(Inner(Top.fn), args, kw, entry), Top.fn)
    /\ UNCHANGED <<cfg, entry, ext, log, sleeps>>
    /\ UNCHANGED <<session, conversation>>

\* a faulty variant: the second invocation hangs on the logging switch
tries_default_language_if_logging(target_language, c) ==
    target_language # get_default_language /\ c.ENABLE_FALLBACK_LOGGING

\* if target_language != LanguageService.get_default_language()
\*    and Config.LANGUAGE_FALLBACK_ENABLED
tries_default_language(target_language, c) ==
    target_language # get_default_language /\ c.LANGUAGE_FALLBACK_ENABLED

\* the outcome of the first invocation
with_language_fallback_outcome ==
    /\ At("with_language_fallback", "wait") /\ ret.kind # "none"
    /\ LET target_language == Top.aux.target_language
           args == with_language_args(Top.args, Top.kw, get_default_language)
           kw == with_language_kwargs(Top.args, Top.kw, get_default_language)
       IN
       IF ret.kind = "value"
       THEN Return(ret.val) /\ UNCHANGED <<log, calls>>
       ELSE IF tries_default_language(target_language, cfg)
       THEN /\ log' = log_language_error(log, Top.fn, target_language, ret.exc,
                                         get_default_language)
            /\ Invoke([Top EXCEPT !.pc = "wait2", !.args = args, !.kw = kw],
                      NewFrame(Inner(Top.fn), args, kw, entry), Top.fn)
       ELSE /\ log' = log_language_error(log, Top.fn, target_language, ret.exc, NoneVal)
            /\ Raise(Exc("LanguageError",
                         <<"Language operation failed in">> \o ret.exc.msg))
            /\ UNCHANGED calls
    /\ UNCHANGED <<cfg, entry, ext, sleeps>>
    /\ UNCHANGED <<session, conversation>>

\* the outcome of the invocation with the default language
with_language_fallback_second_outcome ==
    /\ At("with_language_fallback", "wait2") /\ ret.kind # "none"
    /\ IF ret.kind = "value"
       THEN Return(ret.val) /\ UNCHANGED log
       ELSE /\ log' = log_language_error(log, Top.fn, get_default_language, ret.exc, NoneVal)
            /\ Raise(AllLanguageFallbacksFailed("in", ret.exc))
    /\ UNCHANGED <<cfg, entry, calls, ext, sleeps>>
    /\ UNCHANGED <<session, conversation>>

\* arguments of a decorated function that are not its language
OtherArgs == <<<<"a">>, <<"b">>, <<"c">>>>

\* the ways a caller passes the language l to a function decorated with
\* @with_language_fallback(): at one of the first four positions, by name
\* alone or after three other arguments, or not at all
LanguagePassings(l) ==
    {[args |-> SubSeq(OtherArgs, 1, n) \o <<l>>, kw |-> NoKw] : n \in 0 .. 3}
      \cup {[args |-> <<>>, kw |-> Kw(l)], [args |-> OtherArgs, kw |-> Kw(l)],
            [args |-> <<>>, kw |-> NoKw]}

\* a call of a function decorated with @with_language_fallback()
call_with_language_fallback ==
    /\ entry.op = "none"
    /\ \E l \in LanguageInputs : \E a \in LanguagePassings(l) :
         LET e == [NoEntry EXCEPT !.op = "with_language_fallback", !.language = l,
                                  !.args = a.args, !.kw = a.kw]
         IN /\ entry' = e
            /\ stack' = <<NewFrame("language_func", a.args, a.kw, e)>>
    /\ UNCHANGED <<cfg, ret, calls, ext, log, sleeps>>
    /\ UNCHANGED <<session, conversation>>

(***************************************************************************)
(* FallbackManager.create_fallback_summary (error_handler.py 276-304)      *)
(***************************************************************************)
\* "No content available for summary."
NoContentSummary ==
    <<"N", "o", " ", "c", "o", "n", "t", "e", "n", "t", " ", "a", "v",
      "a", "i", "l", "a", "b", "l", "e", " ", "f", "o", "r", " ", "s",
      "u", "m", "m", "a", "r", "y", ".">>

\* the index of the first ". " in s at or after i, 0 when there is none
FindSep(s, i) ==
    LET found == {j \in i .. Len(s) - 1 : s[j] = "." /\ s[j + 1] = " "}
    IN IF found = {} THEN 0 ELSE CHOOSE j \in found : \A k \in found : j <= k

\* s.split('. ')
RECURSIVE SplitSentences(_)
SplitSentences(s) ==
    LET i == FindSep(s, 1)
    IN IF i = 0 THEN <<s>>
       ELSE <<SubSeq(s, 1, i - 1)>> \o SplitSentences(SubSeq(s, i + 2, Len(s)))

Ellipsis == <<".", ".", ".">>

\* a faulty variant: the text is not cut before the ellipsis
truncate_uncut(text, max_length) == text \o Ellipsis

\* article_text[:max_length].strip() + "..."
truncate(text, max_length) == Strip(SubSeq(text, 1, max_length)) \o Ellipsis

\* a faulty variant: the two-sentence rule is tried before the length rule
create_fallback_summary_sentences_first(article_text, max_length) ==
    IF ~Truthy(article_text) \/ Len(Strip(article_text)) = 0
    THEN NoContentSummary
    ELSE LET text == Strip(article_text)
             sentences == SplitSentences(text)
             summary == sentences[1] \o <<".", " ">> \o sentences[2] \o <<".">>
         IN IF Len(sentences) >= 2 /\ Len(summary) <= max_length THEN summary
            ELSE IF Len(text) <= max_length THEN text
            ELSE truncate(text, max_length)

create_fallback_summary(article_text, max_length) ==
    IF ~Truthy(article_text) \/ Len(Strip(article_text)) = 0
    THEN NoContentSummary
    ELSE LET text == Strip(article_text)
             sentences == SplitSentences(text)
             summary == sentences[1] \o <<".", " ">> \o sentences[2] \o <<".">>
         IN IF Len(text) <= max_length THEN text
            ELSE IF Len(sentences) >= 2 /\ Len(summary) <= max_length THEN summary
            ELSE truncate(text, max_length)

(***************************************************************************)
(* The external services.  Within one call the transient failure of the    *)
(* service is of one kind (entry.transient); which invocations fail, and   *)
(* whether transiently or fatally, is free.                                *)
(***************************************************************************)
TransientKinds == {"timeout", "429", "empty"}

FatalError == Exc("Exception", <<"401">>)

\* an LLM response: whether result.content is non-empty, the text of the
\* line "Summary: ..." (NoneVal when the response has none), what follows
\* "Sentiment:" ("absent": no such line, "empty": nothing after the colon),
\* and the sentiment words on that line and in the rest of the response
Response(content, summary_line, sentiment_line, line_words, other_words) ==
    [content |-> content, summary_line |-> summary_line,
     sentiment_line |-> sentiment_line, line_words |-> line_words,
     other_words |-> other_words]

EmptyResponse == Response(FALSE, NoneVal, "absent", {}, {})

GoodResponses ==
    {Response(TRUE, <<"S">>, "text", {"positive"}, {}),
     Response(TRUE, NoneVal, "empty", {}, {"negative", "neutral"}),
     Response(TRUE, NoneVal, "absent", {}, {})}

LLMOutcomes(transient) ==
    {RetExc(FatalError)}
    \cup (IF transient = "empty" THEN {RetValue(EmptyResponse)}
          ELSE {RetExc(Exc("Exception", <<transient>>))})
    \cup {RetValue(r) : r \in GoodResponses}

\* the TTS engine: the file is written, is missing or empty, or gTTS raises
TTSOutcomes(transient) ==
    {RetExc(FatalError), RetValue(PyBool(TRUE))}
    \cup (IF transient = "empty" THEN {RetValue(PyBool(FALSE))}
          ELSE {RetExc(Exc("Exception", <<transient>>))})

(***************************************************************************)
(* news_service.py                                                         *)
(***************************************************************************)
TemplateLanguages == {EN, HI, MR}

\* get_sentiment_prompt_template: the key of the template that is used
get_sentiment_prompt_template(language) ==
    LET normalized_language == get_fallback_language(language)
    IN IF normalized_language \in TemplateLanguages THEN normalized_language ELSE EN

\* _parse_sentiment_from_response on a text that contains the given words
_parse_sentiment_from_response(words) ==
    IF "positive" \in words THEN "positive"
    ELSE IF "negative" \in words THEN "negative"
    ELSE IF "neutral" \in words THEN "neutral"
    ELSE "neutral"

\* _parse_summary_and_sentiment: <<summary, sentiment>>
_parse_summary_and_sentiment(r) ==
    LET first == IF r.sentiment_line = "text"
                 THEN _parse_sentiment_from_response(r.line_words)
                 ELSE "none"
        sentiment == IF first = "none"
                     THEN _parse_sentiment_from_response(r.line_words \cup r.other_words)
                     ELSE first
    IN <<r.summary_line, sentiment>>

SummaryDict(summary, sentiment, language) ==
    [summary |-> summary, sentiment |-> sentiment, language |-> language]

PySummary(summary) == [summary |-> summary]

RateLimitSleep == [by |-> "rate_limit", delay |-> RATE_LIMIT_DELAY]

\* a faulty variant: the text is measured without being trimmed
text_too_short_untrimmed(text) == Len(text) < SENTIMENT_MIN_LENGTH

\* if len(text.strip()) < 20
text_too_short(text) == Len(Strip(text)) < SENTIMENT_MIN_LENGTH

\* the body of analyze_sentiment (news_service.py 78-117)
analyze_sentiment_body ==
    /\ At("analyze_sentiment/body", "start")
    /\ \E text \in {Top.args[2]},
          language \in {IF Top.kw.has THEN Top.kw.language
                        ELSE IF Len(Top.args) >= 3 THEN Top.args[3] ELSE EN} :
       \E target_language \in {get_fallback_language(language)} :
       IF text_too_short(text)
       THEN Return(PySentiment("neutral")) /\ UNCHANGED <<ext, log, sleeps>>
       ELSE
         /\ log' = IF target_language # language
                   THEN log_language_error(log, "analyze_sentiment", language,
                            Exc("Exception", <<"Language not supported">>), target_language)
                   ELSE log
         /\ sleeps' = Append(sleeps, RateLimitSleep)
         /\ \E o \in LLMOutcomes(entry.transient) :
              /\ ext' = Append(ext, ApiCall("llm",
                               get_sentiment_prompt_template(target_language), o))
              /\ IF o.kind = "exc"
                 THEN Raise(Exc("SentimentAnalysisError",
                                <<"Sentiment analysis failed">> \o o.exc.msg))
                 ELSE IF ~o.val.content
                 THEN Raise(Exc("SentimentAnalysisError",
                                <<"Sentiment analysis failed",
                                  "No content in sentiment analysis response">>))
                 ELSE Return(PySentiment(_parse_sentiment_from_response(
                                 o.val.line_words \cup o.val.other_words)))
    /\ UNCHANGED <<cfg, entry, calls>>
    /\ UNCHANGED <<session, conversation>>

\* a faulty variant: the wrapped error is dropped from the message
FailedSummaryAndSentiment_bare(e) ==
    Exc("AIServiceError", <<"Failed to generate summary and sentiment">>)

\* AIServiceError(f"Failed to generate summary and sentiment: {e}")
FailedSummaryAndSentiment(e) ==
    Exc("AIServiceError", <<"Failed to generate summary and sentiment">> \o e.msg)

\* the body of _generate_summary_with_sentiment_for_language (182-212)
generate_summary_with_sentiment_for_language_body ==
    /\ At("_generate_summary_with_sentiment_for_language/body", "start")
    /\ LET article_text == Top.args[2]
           language == PassedLanguage(Top.args, Top.kw, 4)
           name == "_generate_summary_with_sentiment_for_language"
       IN
       /\ sleeps' = Append(sleeps, RateLimitSleep)
       /\ \E o \in LLMOutcomes(entry.transient) :
            LET e == IF o.kind = "exc" THEN o.exc
                     ELSE Exc("AIServiceError", <<"No content in AI response">>)
                parsed == _parse_summary_and_sentiment(o.val)
            IN
            /\ ext' = Append(ext, ApiCall("llm", get_sentiment_prompt_template(language), o))
            /\ IF o.kind = "exc" \/ ~o.val.content
               THEN /\ log' = log_ai_service_error(log, name, e, 0)
                    /\ Raise(FailedSummaryAndSentiment(e))
               ELSE /\ log' = log
                    /\ Return(SummaryDict(
                          IF Truthy(parsed[1]) THEN parsed[1]
                          ELSE create_fallback_summary(article_text,
                                                       FALLBACK_SUMMARY_MAX_LENGTH),
                          IF parsed[2] # "none" THEN parsed[2] ELSE get_sentiment_fallback,
                          language))
    /\ UNCHANGED <<cfg, entry, calls>>
    /\ UNCHANGED <<session, conversation>>

\* AIServiceError(f"Failed to generate summary: {e}")
FailedSummary(e) == Exc("AIServiceError", <<"Failed to generate summary">> \o e.msg)

\* the body of _generate_summary_for_language (347-386) up to its call
generate_summary_for_language_body ==
    /\ At("_generate_summary_for_language/body", "start")
    /\ LET article_text == Top.args[2]
           title == Top.args[3]
           language == PassedLanguage(Top.args, Top.kw, 4)
           name == "_generate_summary_for_language"
       IN
       /\ sleeps' = Append(sleeps, RateLimitSleep)
       /\ IF language # EN
          THEN /\ Invoke([Top EXCEPT !.pc = "wait"],
                         NewFrame("_generate_summary_with_sentiment_for_language",
                                  <<SelfObj, article_text, title, language>>, NoKw, entry),
                         name)
               /\ UNCHANGED <<ext, log>>
          ELSE \E o \in LLMOutcomes(entry.transient) :
               LET e == IF o.kind = "exc" THEN o.exc
                        ELSE Exc("AIServiceError", <<"No content in AI summary response">>)
               IN
               /\ ext' = Append(ext, ApiCall("llm", EN, o))
               /\ UNCHANGED calls
               /\ IF o.kind = "exc" \/ ~o.val.content
                  THEN /\ log' = log_ai_service_error(log, name, e, 0)
                       /\ Raise(FailedSummary(e))
                  ELSE /\ log' = log
                       /\ Return(PySummary(<<"R">>))
    /\ UNCHANGED <<cfg, entry>>
    /\ UNCHANGED <<session, conversation>>

\* ... and after the call of _generate_summary_with_sentiment_for_language
generate_summary_for_language_outcome ==
    /\ At("_generate_summary_for_language/body", "wait") /\ ret.kind # "none"
    /\ IF ret.kind = "value"
       THEN Return(PySummary(ret.val.summary)) /\ UNCHANGED log
       ELSE /\ log' = log_ai_service_error(log, "_generate_summary_for_language", ret.exc, 0)
            /\ Raise(FailedSummary(ret.exc))
    /\ UNCHANGED <<cfg, entry, calls, ext, sleeps>>
    /\ UNCHANGED <<session, conversation>>

\* a faulty variant: the configuration switch is not consulted
skip_ai_summary_by_length(article_text, c) ==
    Len(article_text) < AI_SUMMARY_MIN_LENGTH

\* len(article_text) < Config.AI_SUMMARY_MIN_LENGTH or not Config.USE_AI_SUMMARY
skip_ai_summary(article_text, c) ==
    Len(article_text) < AI_SUMMARY_MIN_LENGTH \/ ~c.USE_AI_SUMMARY

\* the log calls of the final except clause of generate_summary[_with_sentiment]
final_fallback_log(l, operation, target_language, e) ==
    IF IsRateLimitText(e)
    THEN log_ai_service_error(l, operation, e, 0)
    ELSE log_language_error(l, operation, target_language, e, NoneVal)

\* 'language': LanguageService.get_fallback_language(language)
fallback_record_language(language) == get_fallback_language(language)

\* a faulty variant: the record carries no sentiment
FallbackRecord_no_sentiment(article_text, language) ==
    SummaryDict(create_fallback_summary(article_text, FALLBACK_SUMMARY_MAX_LENGTH),
                "none", fallback_record_language(language))

\* the record returned when the AI is skipped or has failed
FallbackRecord(article_text, language) ==
    SummaryDict(create_fallback_summary(article_text, FALLBACK_SUMMARY_MAX_LENGTH),
                get_sentiment_fallback, fallback_record_language(language))

\* generate_summary_with_sentiment (146-179) up to handle_language_operation
generate_summary_with_sentiment ==
    /\ At("generate_summary_with_sentiment", "start")
    /\ \E article_text \in {Top.args[2]}, title \in {Top.args[3]},
          language \in {Top.args[4]} :
          IF skip_ai_summary(article_text, cfg)
          THEN Return(FallbackRecord(article_text, language)) /\ UNCHANGED calls
          ELSE Invoke([Top EXCEPT !.pc = "wait"],
                      LanguageOperationFrame("generate_summary_with_sentiment", language,
                          "_generate_summary_with_sentiment_for_language",
                          <<article_text, title>>),
                      Top.fn)
    /\ UNCHANGED <<cfg, entry, ext, log, sleeps>>
    /\ UNCHANGED <<session, conversation>>

\* ... its return and its except clause
generate_summary_with_sentiment_outcome ==
    /\ At("generate_summary_with_sentiment", "wait") /\ ret.kind # "none"
    /\ IF ret.kind = "value"
       THEN Return(ret.val) /\ UNCHANGED log
       ELSE \E article_text \in {Top.args[2]}, language \in {Top.args[4]} :
            /\ log' = final_fallback_log(log, Top.fn,
                          get_fallback_language(language), ret.exc)
            /\ Return(FallbackRecord(article_text, language))
    /\ UNCHANGED <<cfg, entry, calls, ext, sleeps>>

    /\ UNCHANGED <<session, conversation>>

\* generate_summary (305-344) with include_sentiment false
generate_summary ==
    /\ At("generate_summary", "start")
    /\ LET article_text == Top.args[2]
           title == Top.args[3]
           language == Top.args[4]
       IN IF skip_ai_summary(article_text, cfg)
          THEN /\ Return(PySummary(create_fallback_summary(article_text,
                                       FALLBACK_SUMMARY_MAX_LENGTH)))
               /\ UNCHANGED calls
          ELSE Invoke([Top EXCEPT !.pc = "wait"],
                      LanguageOperationFrame("generate_summary", language,
                          "_generate_summary_for_language", <<article_text, title>>),
                      Top.fn)
    /\ UNCHANGED <<cfg, entry, ext, log, sleeps>>
    /\ UNCHANGED <<session, conversation>>

generate_summary_outcome ==
    /\ At("generate_summary", "wait") /\ ret.kind # "none"
    /\ IF ret.kind = "value"
       THEN Return(ret.val) /\ UNCHANGED log
       ELSE /\ log' = final_fallback_log(log, Top.fn,
                          get_fallback_language(Top.args[4]), ret.exc)
            /\ Return(PySummary(create_fallback_summary(Top.args[2],
                                    FALLBACK_SUMMARY_MAX_LENGTH)))
    /\ UNCHANGED <<cfg, entry, calls, ext, sleeps>>
    /\ UNCHANGED <<session, conversation>>

(***************************************************************************)
(* tts_service.py                                                          *)
(***************************************************************************)
\* TTSService.default_language after __init__ with no argument
TTS_DEFAULT_LANGUAGE == get_fallback_language(EN)

_get_target_language(language) ==
    IF Truthy(language) THEN get_fallback_language(language) ELSE TTS_DEFAULT_LANGUAGE

\* f"tts_{target_language}_{uuid}.mp3"
AudioFilename(target_language) == <<"tts_">> \o target_language \o <<"_uuid.mp3">>

\* a faulty variant: blanks count as text to speak
no_text_to_speak_untrimmed(text) == ~Truthy(text)

\* if not text or not text.strip()
no_text_to_speak(text) == ~Truthy(text) \/ Strip(text) = <<>>

\* text_to_speech (33-83) up to handle_language_operation; the cleaning of the
\* text is taken as trimming
text_to_speech ==
    /\ At("text_to_speech", "start")
    /\ \E text \in {Top.args[2]}, language \in {Top.args[3]} :
       \E target_language \in {_get_target_language(language)} :
          IF no_text_to_speak(text)
          THEN Return(PyNone) /\ UNCHANGED calls
          ELSE Invoke([Top EXCEPT !.pc = "wait",
                                  !.aux = [target_language |-> target_language]],
                      LanguageOperationFrame("text_to_speech", target_language,
                          "_generate_tts_for_language",
                          <<Strip(text), AudioFilename(target_language)>>),
                      Top.fn)
    /\ UNCHANGED <<cfg, entry, ext, log, sleeps>>
    /\ UNCHANGED <<session, conversation>>

text_to_speech_outcome ==
    /\ At("text_to_speech", "wait") /\ ret.kind # "none"
    /\ IF ret.kind = "value"
       THEN /\ Return(IF ret.val.bool
                      THEN [url |-> <<"/static/audio/">>
                                     \o AudioFilename(Top.aux.target_language)]
                      ELSE PyNone)
            /\ UNCHANGED log
       ELSE /\ log' = log_tts_error(log, Top.fn,
                          IF Truthy(Top.args[3]) THEN Top.args[3] ELSE TTS_DEFAULT_LANGUAGE,
                          ret.exc, NoneVal)
            /\ Return(PyNone)
    /\ UNCHANGED <<cfg, entry, calls, ext, sleeps>>
    /\ UNCHANGED <<session, conversation>>

\* _get_tts_language_code
_get_tts_language_code(language) ==
    IF Truthy(get_tts_code(language)) THEN get_tts_code(language) ELSE get_default_language

\* the body of _generate_tts_for_language (155-184)
generate_tts_for_language_body ==
    /\ At("_generate_tts_for_language/body", "start")
    /\ LET language == PassedLanguage(Top.args, Top.kw, 4)
           tts_lang_code == _get_tts_language_code(language)
           name == "_generate_tts_for_language"
           failed(e) == /\ log' = log_tts_error(log, name, language, e, NoneVal)
                        /\ Raise(Exc("TTSError",
                               <<"TTS generation failed for language">> \o e.msg))
       IN
       IF tts_lang_code = <<"<KeyError>">>
       THEN failed(Exc("KeyError", <<"KeyError">>)) /\ UNCHANGED ext
       ELSE \E o \in TTSOutcomes(entry.transient) :
            /\ ext' = Append(ext, ApiCall("gTTS", tts_lang_code, o))
            /\ IF o.kind = "exc" THEN failed(o.exc)
               ELSE IF ~o.val.bool
               THEN failed(Exc("TTSError", <<"TTS file not created or empty">>))
               ELSE Return(PyBool(TRUE)) /\ UNCHANGED log
    /\ UNCHANGED <<cfg, entry, calls, sleeps>>
    /\ UNCHANGED <<session, conversation>>

(***************************************************************************)
(* Calls of the services                                                   *)
(***************************************************************************)
\* article texts just under and at AI_SUMMARY_MIN_LENGTH, and none
ArticleTexts ==
    {<<>>, Rep("a", AI_SUMMARY_MIN_LENGTH - 1), Rep("a", AI_SUMMARY_MIN_LENGTH)}

\* texts just under and at the sentiment threshold, and one that is under
\* it only once trimmed
SentimentTexts ==
    {Rep("a", SENTIMENT_MIN_LENGTH - 1), Rep("a", SENTIMENT_MIN_LENGTH),
     <<" ">> \o Rep("a", SENTIMENT_MIN_LENGTH - 1) \o <<" ">>}

SpeechTexts == {<<>>, <<" ">>, <<"a">>, NoneVal}

Title == <<"T">>

ServiceCall(op, text, language, transient) ==
    [NoEntry EXCEPT !.op = op, !.text = text, !.title = Title,
                    !.language = language, !.transient = transient]

call_generate_summary_with_sentiment ==
    /\ entry.op = "none"
    /\ \E t \in ArticleTexts, l \in LanguageInputs, k \in TransientKinds :
         /\ entry' = ServiceCall("generate_summary_with_sentiment", t, l, k)
         /\ stack' = <<Frame("generate_summary_with_sentiment",
                             <<SelfObj, t, Title, l>>, NoKw, <<>>)>>
    /\ UNCHANGED <<cfg, ret, calls, ext, log, sleeps>>
    /\ UNCHANGED <<session, conversation>>

call_generate_summary ==
    /\ entry.op = "none"
    /\ \E t \in ArticleTexts, l \in LanguageInputs, k \in TransientKinds :
         /\ entry' = ServiceCall("generate_summary", t, l, k)
         /\ stack' = <<Frame("generate_summary", <<SelfObj, t, Title, l>>, NoKw, <<>>)>>
    /\ UNCHANGED <<cfg, ret, calls, ext, log, sleeps>>
    /\ UNCHANGED <<session, conversation>>

\* analyze_sentiment(text, language), the language passed by position or by name
call_analyze_sentiment ==
    /\ entry.op = "none"
    /\ \E t \in SentimentTexts, l \in LanguageInputs, k \in TransientKinds,
          by_name \in BOOLEAN :
         LET args == IF by_name THEN <<SelfObj, t>> ELSE <<SelfObj, t, l>>
             kw == IF by_name THEN Kw(l) ELSE NoKw
             e == [ServiceCall("analyze_sentiment", t, l, k)
                     EXCEPT !.args = args, !.kw = kw]
         IN /\ entry' = e
            /\ stack' = <<NewFrame("analyze_sentiment", args, kw, e)>>
    /\ UNCHANGED <<cfg, ret, calls, ext, log, sleeps>>
    /\ UNCHANGED <<session, conversation>>

call_text_to_speech ==
    /\ entry.op = "none"
    /\ \E t \in SpeechTexts, l \in LanguageInputs, k \in TransientKinds :
         /\ entry' = ServiceCall("text_to_speech", t, l, k)
         /\ stack' = <<Frame("text_to_speech", <<SelfObj, t, l>>, NoKw, <<>>)>>
    /\ UNCHANGED <<cfg, ret, calls, ext, log, sleeps>>
    /\ UNCHANGED <<session, conversation>>

Init ==
    /\ cfg \in Configs
    /\ entry = NoEntry
    /\ stack = <<>>
    /\ ret = NoRet
    /\ calls = <<>>
    /\ ext = <<>>
    /\ log = <<>>
    /\ sleeps = <<>>
    /\ session = NoSession
    /\ conversation = NoConversation

Next ==
    \/ call_with_retry
    \/ with_retry_attempt
    \/ with_retry_outcome
    \/ func
    \/ call_handle_language_operation
    \/ call_handle_language_operation_over_retry
    \/ handle_language_operation_attempt
    \/ handle_language_operation_outcome
    \/ call_with_sentiment_fallback
    \/ with_sentiment_fallback_call
    \/ with_sentiment_fallback_outcome
    \/ call_handle_sentiment_operation
    \/ handle_sentiment_operation_call
    \/ handle_sentiment_operation_outcome
    \/ call_with_language_fallback
    \/ with_language_fallback_call
    \/ with_language_fallback_outcome
    \/ with_language_fallback_second_outcome
    \/ analyze_sentiment_body

    \/ generate_summary_with_sentiment_for_language_body
    \/ generate_summary_for_language_body
    \/ generate_summary_for_language_outcome
    \/ generate_summary_with_sentiment
    \/ generate_summary_with_sentiment_outcome
    \/ generate_summary
    \/ generate_summary_outcome
    \/ text_to_speech
    \/ text_to_speech_outcome
    \/ generate_tts_for_language_body
    \/ call_generate_summary_with_sentiment
    \/ call_generate_summary
    \/ call_analyze_sentiment
    \/ call_text_to_speech

Spec == Init /\ [][Next]_vars

(***************************************************************************)
(* The functions of the modules applied on their own: one application of   *)
(* a function to an argument drawn from a bounded set, and for some of     *)
(* them a second application.                                              *)
(***************************************************************************)
MaxCodeLen == 4
MaxTextLen == 7
MaxSummaryLength == 6
MaxMessageLen == 2

\* Python values handed back by the functions
PyStr(s) == [str |-> s]
PyList(l) == [list |-> l]

\* the strings of at most n characters of A
StringsUpTo(A, n) == UNION {[1 .. k -> A] : k \in 0 .. n}

\* characters of language codes: the letters of 'hi' and 'en' in both
\* cases, a blank and a letter of no catalog code
CodeAlphabet == {" ", "h", "H", "i", "e", "E", "n", "x"}

\* what a caller can pass as a language code
LanguageCodes == StringsUpTo(CodeAlphabet, MaxCodeLen) \cup {NoneVal, NotAStr}

\* config.py 78-87, the defaults
DefaultConfig ==
    [ENABLE_FALLBACK_LOGGING |-> TRUE, SENTIMENT_FALLBACK_ENABLED |-> TRUE,
     LANGUAGE_FALLBACK_ENABLED |-> TRUE, USE_AI_SUMMARY |-> TRUE]

Applied(fn, result) == [fn |-> fn, result |-> result]

\* LanguageService.get_fallback_language(language_code)
apply_get_fallback_language ==
    /\ entry.op = "none"
    /\ \E l \in LanguageCodes :
         /\ entry' = [op |-> "get_fallback_language", language |-> l]
         /\ ret' = RetValue(PyStr(get_fallback_language(l)))
         /\ calls' = <<Applied("get_fallback_language", get_fallback_language(l))>>
    /\ UNCHANGED <<cfg, stack, ext, log, sleeps>>
    /\ UNCHANGED <<session, conversation>>

\* LanguageService.get_fallback_language applied to its own result
apply_get_fallback_language_again ==
    /\ entry.op = "get_fallback_language" /\ Len(calls) = 1
    /\ LET again == get_fallback_language(ret.val.str)
       IN /\ ret' = RetValue(PyStr(again))
          /\ calls' = Append(calls, Applied("get_fallback_language", again))
    /\ UNCHANGED <<cfg, entry, stack, ext, log, sleeps>>
    /\ UNCHANGED <<session, conversation>>

\* FallbackManager.get_language_fallback_chain(requested_language)
apply_get_language_fallback_chain ==
    /\ entry.op = "none"
    /\ \E l \in LanguageCodes :
         /\ entry' = [op |-> "get_language_fallback_chain", language |-> l]
         /\ ret' = RetValue(PyList(get_language_fallback_chain(l)))
         /\ calls' = <<Applied("get_language_fallback_chain",
                               get_language_fallback_chain(l))>>
    /\ UNCHANGED <<cfg, stack, ext, log, sleeps>>
    /\ UNCHANGED <<session, conversation>>

\* characters of article texts: a letter, the period and the blank
TextAlphabet == {"a", ".", " "}

\* what a caller can pass as the article text
FallbackTexts == StringsUpTo(TextAlphabet, MaxTextLen) \cup {NoneVal}

\* FallbackManager.create_fallback_summary(article_text, max_length)
apply_create_fallback_summary ==
    /\ entry.op = "none"
    /\ \E t \in FallbackTexts, m \in 0 .. MaxSummaryLength :
         /\ entry' = [op |-> "create_fallback_summary", article_text |-> t,
                      max_length |-> m]
         /\ ret' = RetValue(PyStr(create_fallback_summary(t, m)))
         /\ calls' = <<Applied("create_fallback_summary",
                               create_fallback_summary(t, m))>>
    /\ UNCHANGED <<cfg, stack, ext, log, sleeps>>
    /\ UNCHANGED <<session, conversation>>

\* fragments of error messages: every indicator, four of them as a service
\* may capitalise them, and one that is no indicator
MessageTokens ==
    retryable_indicators \cup non_retryable_indicators
      \cup {"TIMEOUT", "Rate Limit", "Invalid API Key", "Not Found", "boom"}

ErrorInputs == {Exc("Exception", m) : m \in StringsUpTo(MessageTokens, MaxMessageLen)}

\* _is_retryable_error(error)
apply_is_retryable_error ==
    /\ entry.op = "none"
    /\ \E e \in ErrorInputs :
         /\ entry' = [op |-> "_is_retryable_error", error |-> e]
         /\ ret' = RetValue(PyBool(_is_retryable_error(e)))
         /\ calls' = <<Applied("_is_retryable_error", _is_retryable_error(e))>>
    /\ UNCHANGED <<cfg, stack, ext, log, sleeps>>
    /\ UNCHANGED <<session, conversation>>

\* _is_retryable_error called again on the same error
apply_is_retryable_error_again ==
    /\ entry.op = "_is_retryable_error" /\ Len(calls) = 1
    /\ ret' = RetValue(PyBool(_is_retryable_error(entry.error)))
    /\ calls' = Append(calls, Applied("_is_retryable_error",
                                      _is_retryable_error(entry.error)))
    /\ UNCHANGED <<cfg, entry, stack, ext, log, sleeps>>
    /\ UNCHANGED <<session, conversation>>

FunctionInit ==
    /\ cfg = DefaultConfig
    /\ entry = NoEntry
    /\ stack = <<>>
    /\ ret = NoRet
    /\ calls = <<>>
    /\ ext = <<>>
    /\ log = <<>>
    /\ sleeps = <<>>
    /\ session = NoSession
    /\ conversation = NoConversation

FunctionNext ==
    \/ apply_get_fallback_language
    \/ apply_get_fallback_language_again
    \/ apply_get_language_fallback_chain
    \/ apply_create_fallback_summary
    \/ apply_is_retryable_error
    \/ apply_is_retryable_error_again

FunctionSpec == FunctionInit /\ [][FunctionNext]_vars

(***************************************************************************)
(* The same call made twice, with Config.ENABLE_FALLBACK_LOGGING switched  *)
(* between the two runs.  The first run is kept in entry.first; in the     *)
(* second run the unit of work fails and succeeds as it did in the first.  *)
(***************************************************************************)
FlagOps ==
    {"with_retry", "handle_language_operation", "with_language_fallback",
     "with_sentiment_fallback", "handle_sentiment_operation", "analyze_sentiment"}

\* the frame the call e starts with
InitialStack(e) ==
    CASE e.op = "with_retry" -> <<RetryFrame("retry_func", <<>>, NoKw, e)>>
      [] e.op = "handle_language_operation" ->
             <<LanguageOperationFrame("test_op", e.language, "func", <<>>)>>
      [] e.op = "with_sentiment_fallback" -> <<NewFrame("sentiment_func", <<>>, NoKw, e)>>
      [] e.op = "handle_sentiment_operation" ->
             <<SentimentOperationFrame("test_op", "func", <<>>)>>
      [] e.op = "with_language_fallback" ->
             <<NewFrame("language_func", e.args, e.kw, e)>>
      [] e.op = "analyze_sentiment" -> <<NewFrame("analyze_sentiment", e.args, e.kw, e)>>

SecondRun == "first" \in DOMAIN entry

\* what a run leaves behind
RunRecord == [ret |-> ret, calls |-> calls, ext |-> ext, sleeps |-> sleeps, log |-> log]

\* the finished call is made again with the logging switch turned over
run_again ==
    /\ Done /\ ~SecondRun /\ entry.op \in FlagOps
    /\ entry' = [f \in DOMAIN entry \cup {"first"} |->
                   IF f = "first" THEN RunRecord ELSE entry[f]]
    /\ cfg' = [cfg EXCEPT !.ENABLE_FALLBACK_LOGGING = ~@]
    /\ stack' = InitialStack(entry)
    /\ ret' = NoRet
    /\ calls' = <<>>
    /\ ext' = <<>>
    /\ log' = <<>>
    /\ sleeps' = <<>>
    /\ UNCHANGED <<session, conversation>>

\* the same failure pattern: the i-th invocation of the unit of work or of
\* the service ends in the second run as it ended in the first
SamePattern ==
    SecondRun =>
      \A i \in DOMAIN ext :
         i <= Len(entry.first.ext) => ext[i].out = entry.first.ext[i].out

FlagNext ==
    \/ run_again
    \/ /\ \/ call_with_retry
          \/ with_retry_attempt
          \/ with_retry_outcome
          \/ func
          \/ call_handle_language_operation
          \/ handle_language_operation_attempt
          \/ handle_language_operation_outcome
          \/ call_with_sentiment_fallback
          \/ with_sentiment_fallback_call
          \/ with_sentiment_fallback_outcome
          \/ call_handle_sentiment_operation
          \/ handle_sentiment_operation_call
          \/ handle_sentiment_operation_outcome
          \/ call_with_language_fallback
          \/ with_language_fallback_call
          \/ with_language_fallback_outcome
          \/ with_language_fallback_second_outcome
          \/ call_analyze_sentiment
          \/ analyze_sentiment_body
       /\ SamePattern'

FlagSpec == Init /\ [][FlagNext]_vars

(***************************************************************************)
(* Two requests served by two threads.  What a call keeps (its arguments,  *)
(* the locals attempt and last_exception of with_retry.wrapper, the loop   *)
(* over the chain of handle_language_operation) lives in the frames of the *)
(* thread; the variables hold the frames of the running thread and         *)
(* cfg.parked those of the other one.  The configuration and the log sink  *)
(* are shared.  The threads interleave at every step.                      *)
(***************************************************************************)
MaxThreadAttempts == 2

ThreadLanguages == {HI, EN, <<"x", "x">>}

\* what belongs to one thread
Context(e, st, r, c, x, sl) ==
    [entry |-> e, stack |-> st, ret |-> r, calls |-> c, ext |-> x, sleeps |-> sl]

Running == Context(entry, stack, ret, calls, ext, sleeps)

IdleContext == Context(NoEntry, <<>>, NoRet, <<>>, <<>>, <<>>)

\* a faulty variant: attempt is a variable of the decorator, which the two
\* calls share
resume_shared_attempt(own, leaving) ==
    IF own.stack # <<>> /\ leaving.stack # <<>>
    THEN [own EXCEPT !.stack[1].n = leaving.stack[1].n]
    ELSE own

\* a thread goes on with the frames it was stopped with
resume(own, leaving) == own

\* the scheduler stops the running thread and lets the other one run
switch_thread ==
    LET next == resume(cfg.parked, Running)
    IN /\ cfg' = [cfg EXCEPT !.parked = Running, !.running = 3 - @]
       /\ entry' = next.entry
       /\ stack' = next.stack
       /\ ret' = next.ret
       /\ calls' = next.calls
       /\ ext' = next.ext
       /\ sleeps' = next.sleeps
       /\ UNCHANGED log
       /\ UNCHANGED <<session, conversation>>

\* the running thread calls the function decorated with @with_retry(m)
thread_with_retry ==
    /\ entry.op = "none"
    /\ \E m \in 1 .. MaxThreadAttempts :
         LET e == [NoEntry EXCEPT !.op = "with_retry", !.max_attempts = m]
         IN /\ entry' = e
            /\ stack' = <<RetryFrame("retry_func", <<>>, NoKw, e)>>
    /\ UNCHANGED <<cfg, ret, calls, ext, log, sleeps>>
    /\ UNCHANGED <<session, conversation>>

\* the running thread calls handle_language_operation on the same function
thread_handle_language_operation ==
    /\ entry.op = "none"
    /\ \E l \in ThreadLanguages :
         /\ entry' = [NoEntry EXCEPT !.op = "handle_language_operation", !.language = l]
         /\ stack' = <<LanguageOperationFrame("test_op", l, "func", <<>>)>>
    /\ UNCHANGED <<cfg, ret, calls, ext, log, sleeps>>
    /\ UNCHANGED <<session, conversation>>

ThreadInit ==
    /\ cfg = [f \in DOMAIN DefaultConfig \cup {"parked", "running"} |->
                IF f = "parked" THEN IdleContext
                ELSE IF f = "running" THEN 1
                ELSE DefaultConfig[f]]
    /\ entry = NoEntry
    /\ stack = <<>>
    /\ ret = NoRet
    /\ calls = <<>>
    /\ ext = <<>>
    /\ log = <<>>
    /\ sleeps = <<>>
    /\ session = NoSession
    /\ conversation = NoConversation

ThreadNext ==
    \/ switch_thread
    \/ thread_with_retry
    \/ thread_handle_language_operation
    \/ with_retry_attempt
    \/ with_retry_outcome
    \/ handle_language_operation_attempt
    \/ handle_language_operation_outcome
    \/ func

ThreadSpec == ThreadInit /\ [][ThreadNext]_vars

(***************************************************************************)
(* session_manager.py.  The Flask session is a dictionary: a function from *)
(* the keys it holds to their values.  session.permanent is kept by Flask  *)
(* under the key "_permanent" of the same dictionary.  calls keeps the     *)
(* calls made on the SessionManager so far, each with what it returned.    *)
(***************************************************************************)
MaxSessionCalls == 4

LANGUAGE_PREFERENCE_KEY == "preferred_language"
SENTIMENT_DISPLAY_KEY == "sentiment_display"
PERMANENT_KEY == "_permanent"

TrueVal == <<"<True>">>

\* session.get(key)
session_get(s, key) == IF key \in DOMAIN s THEN s[key] ELSE NoneVal

\* session[key] = value
session_set(s, key, value) ==
    [k \in DOMAIN s \cup {key} |-> IF k = key THEN value ELSE s[k]]

\* del session[key]
session_del(s, key) == [k \in DOMAIN s \ {key} |-> s[k]]

\* a faulty variant: the code is lower-cased and not trimmed
normalize_language_code_untrimmed(language_code) ==
    IF ~Truthy(language_code) \/ ~IsStr(language_code)
    THEN NoneVal
    ELSE IF validate_language(Lower(language_code))
         THEN Lower(language_code)
         ELSE NoneVal

\* LanguageService.normalize_language_code
normalize_language_code(language_code) ==
    IF ~Truthy(language_code) \/ ~IsStr(language_code)
    THEN NoneVal
    ELSE IF validate_language(Strip(Lower(language_code)))
         THEN Strip(Lower(language_code))
         ELSE NoneVal

\* SessionManager.get_language_preference on the session s
get_language_preference(s) ==
    LET language == session_get(s, LANGUAGE_PREFERENCE_KEY)
    IN IF Truthy(language) /\ validate_language(language)
       THEN Lower(language)
       ELSE get_default_language

\* SessionManager.has_language_preference on the session s
has_language_preference(s) ==
    LET language == session_get(s, LANGUAGE_PREFERENCE_KEY)
    IN language # NoneVal /\ validate_language(language)

\* the session after SessionManager.set_language_preference(language_code)
session_after_set(s, language_code) ==
    IF ~Truthy(normalize_language_code(language_code))
    THEN s
    ELSE session_set(session_set(s, LANGUAGE_PREFERENCE_KEY,
                                 normalize_language_code(language_code)),
                     PERMANENT_KEY, TrueVal)

\* the session after SessionManager.set_sentiment_display_preference(True)
session_after_sentiment_display(s) ==
    session_set(session_set(s, SENTIMENT_DISPLAY_KEY, TrueVal), PERMANENT_KEY, TrueVal)

\* the codes a client sends to /set-language
SessionLanguageInputs == LanguageInputs \cup {MR}

SessionCall(op, language_code, result) ==
    [op |-> op, language |-> language_code, result |-> result]

\* a call on the SessionManager is made and returns
session_called(op, language_code, result) ==
    /\ Len(calls) < MaxSessionCalls
    /\ entry' = [NoEntry EXCEPT !.op = op, !.language = language_code]
    /\ ret' = RetValue(result)
    /\ calls' = Append(calls, SessionCall(op, language_code, result))
    /\ UNCHANGED <<cfg, stack, ext, log, sleeps, conversation>>

set_language_preference ==
    \E language_code \in SessionLanguageInputs :
       /\ session' = session_after_set(session, language_code)
       /\ session_called("set_language_preference", language_code,
                         PyBool(Truthy(normalize_language_code(language_code))))

clear_language_preference ==
    /\ session' = IF LANGUAGE_PREFERENCE_KEY \in DOMAIN session
                  THEN session_del(session, LANGUAGE_PREFERENCE_KEY)
                  ELSE session
    /\ session_called("clear_language_preference", NoneVal, PyNone)

clear_session ==
    /\ session' = NoSession
    /\ session_called("clear_session", NoneVal, PyNone)

initialize_session_defaults ==
    LET with_language == IF ~has_language_preference(session)
                         THEN session_after_set(session, get_default_language)
                         ELSE session
    IN /\ session' = IF SENTIMENT_DISPLAY_KEY \notin DOMAIN with_language
                     THEN session_after_sentiment_display(with_language)
                     ELSE with_language
       /\ session_called("initialize_session_defaults", NoneVal, PyNone)

call_get_language_preference ==
    /\ session' = session
    /\ session_called("get_language_preference", NoneVal,
                      PyStr(get_language_preference(session)))

SessionInit ==
    /\ cfg = DefaultConfig
    /\ entry = NoEntry
    /\ stack = <<>>
    /\ ret = NoRet
    /\ calls = <<>>
    /\ ext = <<>>
    /\ log = <<>>
    /\ sleeps = <<>>
    /\ session = NoSession
    /\ conversation = NoConversation

SessionNext ==
    \/ set_language_preference
    \/ clear_language_preference
    \/ clear_session
    \/ initialize_session_defaults
    \/ call_get_language_preference

SessionSpec == SessionInit /\ [][SessionNext]_vars

(***************************************************************************)
(* conversation_graph.py.  conversation is the state dictionary that goes  *)
(* from one turn to the next: what process_conversation returned is handed *)
(* back to it as current_state.  A response is the pair of the language of *)
(* the prompt table and the key of the prompt.  A word in Devanagari       *)
(* script is one token named by its transliteration.  calls keeps the      *)
(* inputs of the turns taken so far.                                       *)
(***************************************************************************)
MaxTurns == 4

\* w in s, for two strings
Contains(s, w) ==
    \E i \in 0 .. Len(s) - Len(w) : SubSeq(s, i + 1, i + Len(w)) = w

AnyWordIn(words, s) == \E w \in words : Contains(s, w)

MarathiWords == {<<"m", "a", "r", "a", "t", "h", "i">>, MR, <<"<marathi>">>}
HindiWords == {<<"h", "i", "n", "d", "i">>, HI, <<"<hindi>">>}
EnglishWords == {<<"e", "n", "g", "l", "i", "s", "h">>, EN}
marathi_indicators == {<<"<namaskar>">>, <<"<nahi>">>}
hindi_indicators == {<<"<namaste>">>, <<"<nahin>">>}

\* NewsConversationGraph._detect_language_preference
detect_language_preference(user_input) ==
    LET text == Strip(Lower(user_input))
    IN IF AnyWordIn(MarathiWords, text) THEN MR
       ELSE IF AnyWordIn(HindiWords, text) THEN HI
       ELSE IF AnyWordIn(EnglishWords, text) THEN EN
       ELSE IF AnyWordIn(marathi_indicators, text) THEN MR
       ELSE IF AnyWordIn(hindi_indicators, text) THEN HI
       ELSE NoneVal

StopWords ==
    {<<"n", "o">>, <<"n">>, <<"s", "t", "o", "p">>, <<"s", "e", "a", "r", "c", "h">>,
     <<"d", "o", "n", "e">>, <<"<nahin>">>, <<"<nahi>">>}

\* self.language_prompts.get(language, self.language_prompts['en'])
prompts(language) == IF language \in SUPPORTED_LANGUAGES THEN language ELSE EN

Prompt(language, key) == <<prompts(language), key>>

\* state.get(key, default)
state_get(state, key, default) == IF key \in DOMAIN state THEN state[key] ELSE default

\* state[key] = value
state_set(state, key, value) ==
    [k \in DOMAIN state \cup {key} |-> IF k = key THEN value ELSE state[k]]

ConversationState(topics, user_input, stage, response, next_action, language, language_confirmed) ==
    [topics |-> topics, user_input |-> user_input, stage |-> stage,
     response |-> response, next_action |-> next_action, language |-> language,
     language_confirmed |-> language_confirmed]

\* a faulty variant: the language is looked for in every input
selecting_language_always(stage, language_confirmed) == TRUE

\* the turn is handled by the language selection stage
selecting_language(stage, language_confirmed) ==
    stage = "language_selection" \/ ~language_confirmed

\* a faulty variant: the search starts on a stop word whatever was collected
topics_collected_ignored(topics) == TRUE

\* if topics:
topics_collected(topics) == topics # <<>>

\* a faulty variant: an input is added without looking at the topics held
is_new_topic_unchecked(user_input, topics) == user_input # <<>>

\* if user_input and user_input not in topics:
is_new_topic(user_input, topics) ==
    user_input # <<>> /\ user_input \notin Range(topics)

\* NewsConversationGraph.should_search_news
should_search_news(state) ==
    state_get(state, "stage", NoneVal) = "searching"
      /\ Len(state_get(state, "topics", <<>>)) > 0

\* the node process_user_input of the graph: the dictionary it returns,
\* merged into the state it was given
process_user_input(state) ==
    LET user_input == Strip(state_get(state, "user_input", <<>>))
        user_input_lower == Lower(user_input)
        topics == state_get(state, "topics", <<>>)
        stage == state_get(state, "stage", "language_selection")
        language == state_get(state, "language", EN)
        language_confirmed == state_get(state, "language_confirmed", FALSE)
        detected_language == detect_language_preference(user_input_lower)
        result(t, s, l, c, key, action) ==
            ConversationState(t, state.user_input, s, Prompt(l, key), action, l, c)
    IN IF selecting_language(stage, language_confirmed)
       THEN IF Truthy(detected_language)
            THEN result(topics, "collecting", detected_language, TRUE,
                        "language_set", "collect")
            ELSE result(topics, "language_selection", EN, FALSE,
                        "welcome", "select_language")
       ELSE IF stage = "collecting"
       THEN IF user_input_lower \in StopWords
            THEN IF topics_collected(topics)
                 THEN result(topics, "searching", language, language_confirmed,
                             "search_ready", "search")
                 ELSE result(topics, "collecting", language, language_confirmed,
                             "need_topic", "collect")
            ELSE IF is_new_topic(user_input, topics)
            THEN result(Append(topics, user_input), "collecting", language,

                        language_confirmed, "topic_added", "collect")
            ELSE IF user_input \in Range(topics)
            THEN result(topics, "collecting", language, language_confirmed,
                        "topic_exists", "collect")
            ELSE result(topics, "collecting", language, language_confirmed,
                        "ask_topic", "collect")
       ELSE result(topics, "collecting", language, language_confirmed,
                   "ask_topic", "collect")

\* the state a conversation is given when current_state is None
new_conversation(user_input) ==
    ConversationState(<<>>, user_input, "language_selection", <<>>,
                      "select_language", EN, FALSE)

\* current_state as process_conversation hands it to the graph
current_state(state, user_input) ==
    IF state = NoConversation
    THEN new_conversation(user_input)
    ELSE state_set(state, "user_input", user_input)

\* self.graph.invoke raises: str.strip() of an input that is no string
graph_invoke_raises(state) == ~IsStr(state.user_input)

\* what process_conversation returns for the input and the state given
process_conversation_result(user_input, state) ==
    LET given == current_state(state, user_input)
        language == state_get(given, "language", EN)
    IN IF ~graph_invoke_raises(given)
       THEN process_user_input(given)
       ELSE [topics |-> state_get(given, "topics", <<>>),
             stage |-> "collecting",
             language |-> language,
             language_confirmed |-> state_get(given, "language_confirmed", FALSE),
             response |-> IF language = EN THEN <<EN, "error">>
                          ELSE Prompt(language, "ask_topic"),
             next_action |-> "collect"]

\* what a user types: language names, words that hold a language code, topics,
\* a padded topic, stop words, a word that is a stop word and a Hindi
\* indicator, nothing
UserInputs ==
    {<<"H", "i", "n", "d", "i">>, MR, <<"E", "n", "g", "l", "i", "s", "h">>,
     <<"t", "h", "i", "s">>, <<"a", "i">>, <<" ", "a", "i", " ">>,
     <<"t", "v">>, <<"n", "o">>, <<"N">>, <<"<nahin>">>, <<>>}

\* one turn: NewsConversationGraph.process_conversation(user_input, state),
\* whose result is the state of the next turn
process_conversation ==
    /\ Len(calls) < MaxTurns
    /\ \E user_input \in UserInputs :
         /\ conversation' = process_conversation_result(user_input, conversation)
         /\ entry' = [NoEntry EXCEPT !.op = "process_conversation", !.text = user_input]
         /\ calls' = Append(calls, user_input)
    /\ ret' = RetValue(conversation')
    /\ UNCHANGED <<cfg, stack, ext, log, sleeps, session>>

ConversationInit ==
    /\ cfg = DefaultConfig
    /\ entry = NoEntry
    /\ stack = <<>>
    /\ ret = NoRet
    /\ calls = <<>>
    /\ ext = <<>>
    /\ log = <<>>
    /\ sleeps = <<>>
    /\ session = NoSession
    /\ conversation = NoConversation

ConversationNext ==
    \/ process_conversation

ConversationSpec == ConversationInit /\ [][ConversationNext]_vars

(***************************************************************************)
(* Termination.  One call of with_retry, handle_language_operation,        *)
(* analyze_sentiment, generate_summary_with_sentiment or text_to_speech,   *)
(* run by one thread: every external call and every sleep returns, so the  *)
(* thread takes its next step whenever it has one (weak fairness of the    *)
(* steps).  The calls are made with one text above the thresholds and with *)
(* a supported, an unsupported and the default language; the outcomes of   *)
(* the external calls are all those of Spec.                               *)
(***************************************************************************)
TerminationLanguages == {HI, EN, <<"x", "x">>}

TerminationCall ==
    /\ entry'.language \in TerminationLanguages \cup {NoneVal}
    /\ entry'.transient = "timeout"
    /\ entry'.text \in {<<>>, <<"a">>, Rep("a", SENTIMENT_MIN_LENGTH),
                       Rep("a", AI_SUMMARY_MIN_LENGTH)}
    /\ entry'.base_delay = NoneInt
    /\ entry'.exponential_backoff
    /\ ~entry'.kw.has

TerminationCalls ==
    \/ call_with_retry
    \/ call_handle_language_operation
    \/ call_handle_language_operation_over_retry
    \/ call_analyze_sentiment
    \/ call_generate_summary_with_sentiment
    \/ call_text_to_speech

TerminationSteps ==
    \/ func
    \/ with_retry_attempt
    \/ with_retry_outcome
    \/ handle_language_operation_attempt
    \/ handle_language_operation_outcome
    \/ with_sentiment_fallback_call
    \/ with_sentiment_fallback_outcome
    \/ with_language_fallback_call
    \/ with_language_fallback_outcome
    \/ with_language_fallback_second_outcome
    \/ analyze_sentiment_body
    \/ generate_summary_with_sentiment_for_language_body
    \/ generate_summary_with_sentiment
    \/ generate_summary_with_sentiment_outcome
    \/ text_to_speech
    \/ text_to_speech_outcome
    \/ generate_tts_for_language_body

TerminationNext ==
    \/ TerminationCalls /\ TerminationCall
    \/ TerminationSteps

TerminationSpec ==
    Init /\ [][TerminationNext]_vars /\ WF_vars(TerminationSteps)

(***************************************************************************)
(* routes.py, /chat.  The conversation row of one session is shared by the *)
(* requests of that session; every request runs in a thread of its own     *)
(* with its own database session.  conversation is the stored row, stack   *)
(* holds one frame per request in flight, calls the messages received and  *)
(* ext the results committed.                                              *)
(***************************************************************************)
MaxRequests == 3

\* json.dumps and json.loads of the lists and dictionaries stored
json_dumps(value) == <<"json", value>>
json_loads(s) == s[2]

EmptyDict == [k \in {} |-> NoneVal]

\* ConversationSession.get_topics, get_state
get_topics(row) == IF row.topics # <<>> THEN json_loads(row.topics) ELSE <<>>
get_state(row) == IF row.state # <<>> THEN json_loads(row.state) ELSE EmptyDict

\* the row index() creates: state '{}', topics '[]'
NewRow == [state |-> json_dumps(EmptyDict), topics |-> json_dumps(<<>>)]

\* conv_session.set_topics(result.get('topics', [])); set_state(result)
UpdatedRow(result) ==
    [state |-> json_dumps(result),
     topics |-> json_dumps(state_get(result, "topics", <<>>))]

\* current_state = get_state(); current_state.update({topics, user_input})
chat_current_state(row, user_message) ==
    state_set(state_set(get_state(row), "topics", get_topics(row)),
              "user_input", user_message)

\* the JSON body of the answer
response_data(result) ==
    [response |-> state_get(result, "response", <<EN, "error">>),
     topics |-> state_get(result, "topics", <<>>),
     should_search |-> (state_get(result, "next_action", NoneVal) = "search"),
     stage |-> state_get(result, "stage", "collecting")]

EmptyMessage == [error |-> "Empty message", status |-> 400]

ChatMessages ==
    {<<"E", "n", "g", "l", "i", "s", "h">>, <<"a", "i">>, <<"t", "v">>,
     <<"n", "o">>, <<" ">>}

WithoutFrame(i) == SubSeq(stack, 1, i - 1) \o SubSeq(stack, i + 1, Len(stack))

\* a request arrives: the message is trimmed, an empty one is answered with
\* 400, another one is handled by a thread of its own
chat_request ==
    /\ Len(calls) < MaxRequests
    /\ \E message \in ChatMessages :
       \E user_message \in {Strip(message)} :
         /\ calls' = Append(calls, message)
         /\ entry' = [NoEntry EXCEPT !.op = "chat", !.text = message]
         /\ IF user_message = <<>>
            THEN ret' = RetValue(EmptyMessage) /\ UNCHANGED stack
            ELSE /\ stack' = Append(stack, Frame("chat", <<user_message>>, NoKw, EmptyDict))
                 /\ UNCHANGED ret
    /\ UNCHANGED <<cfg, ext, log, sleeps, session, conversation>>

\* a request reads the row and takes its turn of the conversation
chat_process ==
    /\ \E i \in DOMAIN stack :
         /\ stack[i].pc = "start"
         /\ \E user_message \in {stack[i].args[1]} :
            \E state \in {chat_current_state(conversation, user_message)} :
            \E result \in {process_conversation_result(user_message, state)} :
              stack' = [stack EXCEPT ![i].pc = "commit", ![i].aux = result]
    /\ UNCHANGED <<cfg, entry, ret, calls, ext, log, sleeps, session, conversation>>

\* a request writes topics and state of its result to the row, commits and
\* answers
chat_commit ==
    /\ \E i \in DOMAIN stack :
         /\ stack[i].pc = "commit"
         /\ \E result \in {stack[i].aux} :
              /\ conversation' = UpdatedRow(result)
              /\ ext' = Append(ext, ApiCall("db.session.commit", result.language,
                                            RetValue(result)))
              /\ ret' = RetValue(response_data(result))
         /\ stack' = WithoutFrame(i)
    /\ UNCHANGED <<cfg, entry, calls, log, sleeps, session>>

ChatInit ==
    /\ cfg = DefaultConfig
    /\ entry = NoEntry
    /\ stack = <<>>
    /\ ret = NoRet
    /\ calls = <<>>
    /\ ext = <<>>
    /\ log = <<>>
    /\ sleeps = <<>>
    /\ session = NoSession
    /\ conversation = NewRow

ChatNext ==
    \/ chat_request
    \/ chat_process
    \/ chat_commit

ChatSpec == ChatInit /\ [][ChatNext]_vars

(***************************************************************************)
(* Properties                                                              *)
(***************************************************************************)
\* an error whose message holds one of the fatal indicators
HasFatalIndicator(e) == \E i \in DOMAIN e.msg : e.msg[i] \in non_retryable_indicators

Failed(i) == ext[i].out.kind = "exc"
FailedRetryably(i) == Failed(i) /\ ~HasFatalIndicator(ext[i].out.exc)
FailedFatally(i) == Failed(i) /\ HasFatalIndicator(ext[i].out.exc)

\* the max_attempts a call of the decorated unit of work asks for
RequestedAttempts ==
    IF entry.max_attempts = NoneInt THEN MAX_RETRY_ATTEMPTS ELSE entry.max_attempts

RetryCall == entry.op = "with_retry" /\ RequestedAttempts >= 1

\* C1: with_retry with max_attempts = n >= 1 never invokes the function more
\* than n times, and when every invocation fails with a retryable error it
\* invokes it exactly n times and raises AIServiceError whose message carries
\* the message of the n-th failure.
C1_RetryExhaustion ==
    RetryCall =>
      /\ Len(ext) <= RequestedAttempts
      /\ (Done /\ \A i \in DOMAIN ext : FailedRetryably(i)) =>
            /\ Len(ext) = RequestedAttempts
            /\ ret = RetExc(Exc("AIServiceError",
                        <<"All retry attempts failed in">> \o ext[Len(ext)].out.exc.msg))

C1_Witness ==
    /\ Done /\ entry.op = "with_retry" /\ entry.max_attempts = 3
    /\ Len(ext) = 3 /\ \A i \in DOMAIN ext : FailedRetryably(i)
    /\ ret.kind = "exc" /\ ret.exc.type = "AIServiceError"

\* C2: in with_retry a fatal error on attempt k ends the invocations (k of
\* them in total, one when the first attempt is fatal) and the call raises
\* that very error, not AIServiceError.
C2_FatalNotRetried ==
    RetryCall =>
      \A k \in DOMAIN ext : FailedFatally(k) =>
         /\ k = Len(ext)
         /\ Done => ret = RetExc(ext[k].out.exc)

C2_Witness ==
    /\ Done /\ RetryCall /\ Len(ext) = 2 /\ FailedRetryably(1) /\ FailedFatally(2)
    /\ ret = RetExc(ext[2].out.exc)

LanguageCall == entry.op = "handle_language_operation"

RequestedChain == get_language_fallback_chain(entry.language)

\* C3: handle_language_operation invokes the unit of work with language =
\* candidate for the candidates of the fallback chain in order, once each,
\* makes no invocation after a success, stops early only on a success and
\* returns the value of the invocation that succeeded.
C3_ChainOrder ==
    LanguageCall =>
      /\ Len(ext) <= Len(RequestedChain)
      /\ \A i \in DOMAIN ext :
            /\ ext[i].language = RequestedChain[i]
            /\ ~Failed(i) => i = Len(ext)
      /\ Done =>
            /\ Len(ext) >= 1
            /\ Len(ext) < Len(RequestedChain) => ~Failed(Len(ext))
            /\ ~Failed(Len(ext)) => ret = ext[Len(ext)].out

C3_Witness ==
    /\ Done /\ LanguageCall /\ Len(ext) = 2 /\ Failed(1) /\ ~Failed(2)
    /\ ext[1].language = HI /\ ext[2].language = EN
    /\ ret.kind = "value" /\ ret.val.language = EN

\* C4: handle_language_operation raises exactly when the unit of work failed
\* for every candidate of the chain; what it raises is LanguageError with the
\* message of the last candidate's failure, and nothing else.
C4_LanguageErrorIff ==
    (Done /\ LanguageCall) =>
      /\ ret.kind = "exc" <=>
            (Len(ext) = Len(RequestedChain) /\ \A i \in DOMAIN ext : Failed(i))
      /\ ret.kind = "exc" =>
            ret.exc = Exc("LanguageError",
                          <<"All language fallbacks failed", "test_op">>
                             \o ext[Len(ext)].out.exc.msg)

C4_Witness ==
    /\ Done /\ LanguageCall /\ Len(ext) = 2 /\ Failed(1) /\ Failed(2)
    /\ ret.kind = "exc" /\ ret.exc.type = "LanguageError"

ServiceOps ==
    {"generate_summary", "generate_summary_with_sentiment", "analyze_sentiment",
     "text_to_speech"}

\* C5: one call of generate_summary, generate_summary_with_sentiment,
\* analyze_sentiment or text_to_speech invokes the external API at most six
\* times (two languages, three attempts each).
C5_AtMostSixExternalCalls ==
    entry.op \in ServiceOps => Len(ext) <= 2 * MAX_RETRY_ATTEMPTS

\* the wrappers that move a call on to the next language
LanguageLevel == {"handle_language_operation", "analyze_sentiment/1"}

\* the unit of work was entered for a language after external call i and
\* not later than external call j
NewLanguageBetween(i, j) ==
    \E c \in DOMAIN calls :
       /\ ext[i].at < c /\ c <= ext[j].at
       /\ calls[c].by \in LanguageLevel

\* C6: in the summarization, sentiment and speech callers an external call
\* that fails with a fatal error is the last one of its language: the next
\* external call, if any, belongs to a new invocation of the per-language
\* unit of work, although the error reaches with_retry re-wrapped.
C6_FatalNeverRetried ==
    entry.op \in ServiceOps =>
      \A i \in DOMAIN ext :
         (FailedFatally(i) /\ i < Len(ext)) => NewLanguageBetween(i, i + 1)

C6_Witness ==
    /\ Done /\ entry.op = "generate_summary_with_sentiment"
    /\ Len(ext) = 2 /\ FailedFatally(1) /\ ~Failed(2)
    /\ ext[1].language = HI /\ ext[2].language = EN
    /\ ret.kind = "value" /\ ret.val.language = EN

\* C7: generate_summary_with_sentiment never raises: it returns a record
\* with summary, sentiment and language whose sentiment is one of positive,
\* negative, neutral, for every text, language and failure pattern.
C7_SummaryWithSentimentTotal ==
    (Done /\ entry.op = "generate_summary_with_sentiment") =>
      /\ ret.kind = "value"
      /\ DOMAIN ret.val = {"summary", "sentiment", "language"}
      /\ ret.val.sentiment \in SentimentValues
      /\ Truthy(ret.val.summary)

C7_Witness ==
    /\ Done /\ entry.op = "generate_summary_with_sentiment"
    /\ Len(ext) = 6 /\ \A i \in DOMAIN ext : FailedRetryably(i)
    /\ ext[1].language = HI /\ ext[6].language = EN
    /\ ret.kind = "value" /\ ret.val.sentiment = "neutral"

\* C8: the language of the record returned by generate_summary_with_sentiment
\* is the language the returned summary was made in (the language of the
\* prompt of the external call that succeeded), and the default when the
\* requested code is unsupported.
C8_LanguageIsLanguageUsed ==
    (Done /\ entry.op = "generate_summary_with_sentiment") =>
      /\ (ext # <<>> /\ ~Failed(Len(ext)) /\ ext[Len(ext)].out.val.content) =>
            ret.val.language = ext[Len(ext)].language
      /\ ~validate_language(entry.language) => ret.val.language = DEFAULT_LANGUAGE

SentimentWrapperOps == {"with_sentiment_fallback", "handle_sentiment_operation"}

SentimentLog == SelectSeq(log, LAMBDA r : r.cat = "sentiment")

\* C9 as stated: with sentiment fallback enabled a failing function gives
\* "neutral", no exception, and exactly one sentiment-error record naming
\* the fallback value.
C9_NeutralAndOneRecord ==
    (Done /\ entry.op \in SentimentWrapperOps /\ cfg.SENTIMENT_FALLBACK_ENABLED
          /\ Failed(1)) =>
      /\ ret = RetValue(PySentiment("neutral"))
      /\ Len(SentimentLog) = 1
      /\ SentimentLog[1].fallback_used = "neutral"

\* the value a sentiment wrapper falls back to
FallbackValue ==
    IF entry.op = "with_sentiment_fallback" THEN entry.fallback_sentiment ELSE "neutral"

\* C9 amended: with sentiment fallback enabled a failing function gives the
\* wrapper's fallback value (neutral for handle_sentiment_operation and for
\* the decorator's default argument) and no exception; it writes exactly one
\* sentiment-error record naming that value when fallback logging is
\* enabled and no record when it is disabled.
C9_FallbackAndRecordIfLogging ==
    (Done /\ entry.op \in SentimentWrapperOps /\ cfg.SENTIMENT_FALLBACK_ENABLED
          /\ Failed(1)) =>
      /\ ret = RetValue(PySentiment(FallbackValue))
      /\ Len(ext) = 1
      /\ IF cfg.ENABLE_FALLBACK_LOGGING
         THEN /\ Len(SentimentLog) = 1
              /\ SentimentLog[1].fallback_used = FallbackValue
              /\ SentimentLog[1].error = ext[1].out.exc
         ELSE log = <<>>

C9_Witness ==
    /\ Done /\ entry.op = "handle_sentiment_operation" /\ Failed(1)
    /\ cfg.SENTIMENT_FALLBACK_ENABLED /\ cfg.ENABLE_FALLBACK_LOGGING
    /\ ret = RetValue(PySentiment("neutral")) /\ Len(SentimentLog) = 1

BodyCalls == SelectSeq(calls, LAMBDA c : c.fn = "analyze_sentiment/body")

Normalized(language_code) == Strip(Lower(language_code))

\* C12 as stated: for every input get_language_fallback_chain returns a
\* duplicate-free list of normalized catalog codes of length 1 or 2 ending in
\* the default: [requested, default] for a supported non-default request,
\* [default] otherwise.
C12_ChainOfNormalizedCodes ==
    entry.op = "get_language_fallback_chain" =>
      LET chain == ret.val.list
          l == entry.language
      IN /\ Len(chain) \in {1, 2}
         /\ \A i, j \in DOMAIN chain : i # j => chain[i] # chain[j]
         /\ \A i \in DOMAIN chain : chain[i] \in SUPPORTED_LANGUAGES
         /\ chain[Len(chain)] = DEFAULT_LANGUAGE
         /\ chain = IF validate_language(l) /\ Normalized(l) # DEFAULT_LANGUAGE
                    THEN <<Normalized(l), DEFAULT_LANGUAGE>>
                    ELSE <<DEFAULT_LANGUAGE>>

\* C13 as stated: for every input validate_language accepts,
\* get_fallback_language returns the lower-cased, trimmed code, and applied
\* to its own result it returns the same value.
C13_FallbackIsNormalized ==
    (entry.op = "get_fallback_language" /\ validate_language(entry.language)) =>
      /\ calls[1].result = Normalized(entry.language)
      /\ Len(calls) = 2 => calls[2].result = calls[1].result

\* C14: get_fallback_language returns the default code for every input that
\* is not supported (None, a non-string, the empty string, blanks only, an
\* unknown code); it returns a string and nothing is raised.
C14_UnsupportedGivesDefault ==
    (entry.op = "get_fallback_language" /\ ~validate_language(entry.language)) =>
      /\ ret.kind = "value"
      /\ \A i \in DOMAIN calls : calls[i].result = DEFAULT_LANGUAGE
      /\ ret.val.str # NoneVal

C14_Witness ==
    /\ entry.op = "get_fallback_language" /\ entry.language = <<" ", " ">>
    /\ Len(calls) = 2 /\ ret = RetValue(PyStr(EN))

\* the spellings under which a message can carry an indicator
Spellings(indicator) ==
    {indicator} \cup
      (CASE indicator = "timeout" -> {"TIMEOUT"}
         [] indicator = "rate limit" -> {"Rate Limit"}
         [] indicator = "invalid api key" -> {"Invalid API Key"}
         [] indicator = "not found" -> {"Not Found"}
         [] OTHER -> {})

\* the message carries the indicator, in whatever case
Carries(e, indicators) ==
    \E i \in DOMAIN e.msg, x \in indicators : e.msg[i] \in Spellings(x)

\* C15: _is_retryable_error answers non-retryable exactly when the
\* lower-cased message carries a fatal indicator, also when it carries a
\* retryable one as well, and retryable in every other case, a message with
\* no indicator included; a second call on the same error answers the same.
C15_FatalIffFatalIndicator ==
    entry.op = "_is_retryable_error" =>
      /\ \A i \in DOMAIN calls :
            calls[i].result = ~Carries(entry.error, non_retryable_indicators)
      /\ ret.val.bool = calls[1].result

\* fatal wins: a capitalised fatal indicator after a retryable one
C15_Witness ==
    /\ entry.op = "_is_retryable_error"
    /\ entry.error.msg = <<"timeout", "Invalid API Key">>
    /\ Len(calls) = 2 /\ ret = RetValue(PyBool(FALSE))

\* the text is None, empty or blanks only
Blank(article_text) == article_text \in {NoneVal, <<>>} \/ Strip(article_text) = <<>>

\* the first two fragments of a split on ". ", joined by ". ", and a period
TwoSentences(text) ==
    SplitSentences(text)[1] \o <<".", " ">> \o SplitSentences(text)[2] \o <<".">>

FitsInTwoSentences(text, max_length) ==
    Len(SplitSentences(text)) >= 2 /\ Len(TwoSentences(text)) <= max_length

\* C18 as stated: the rules of create_fallback_summary in order: blank text
\* gives the no-content sentence; trimmed text that fits max_length is
\* returned unchanged; else the first two fragments joined when there are two
\* and they fit; else the first max_length characters followed by "...".
C18_RulesInOrder ==
    entry.op = "create_fallback_summary" =>
      LET text == Strip(entry.article_text)
          m == entry.max_length
      IN ret.val.str =
           IF Blank(entry.article_text) THEN NoContentSummary
           ELSE IF Len(text) <= m THEN text
           ELSE IF FitsInTwoSentences(text, m) THEN TwoSentences(text)
           ELSE SubSeq(text, 1, m) \o Ellipsis

\* C18 amended: the same rules in the same order, the last one being: the
\* first max_length characters of the trimmed text, trimmed again of the
\* blanks the cut leaves at their end, followed by "...".
C18_RulesInOrderCutTrimmed ==
    entry.op = "create_fallback_summary" =>
      LET text == Strip(entry.article_text)
          m == entry.max_length
      IN ret.val.str =
           IF Blank(entry.article_text) THEN NoContentSummary
           ELSE IF Len(text) <= m THEN text
           ELSE IF FitsInTwoSentences(text, m) THEN TwoSentences(text)
           ELSE RStrip(SubSeq(text, 1, m)) \o Ellipsis

\* the text "a. a. a" is longer than 5 and its first two fragments fit 5
C18_Witness ==
    /\ entry.op = "create_fallback_summary"
    /\ entry.article_text = <<"a", ".", " ", "a", ".", " ", "a">>
    /\ entry.max_length = 5
    /\ ret.val.str = <<"a", ".", " ", "a", ".">>

\* the result ends with the ellipsis the truncation appends
EndsWithEllipsis(s) == Len(s) >= 3 /\ SubSeq(s, Len(s) - 2, Len(s)) = Ellipsis

\* C19 as stated: for every non-empty text and every max_length >= 0 the
\* result has at most max_length + 3 characters, and at most max_length
\* when no ellipsis is appended.
C19_BoundedForNonEmpty ==
    (entry.op = "create_fallback_summary"
       /\ entry.article_text \notin {NoneVal, <<>>}) =>
      /\ Len(ret.val.str) <= entry.max_length + 3
      /\ ~EndsWithEllipsis(ret.val.str) => Len(ret.val.str) <= entry.max_length

\* C19 amended: for every text that holds a character other than a blank and
\* every max_length >= 0 the result has at most max_length + 3 characters;
\* it has at most max_length characters unless the text was cut and "..."
\* appended, and then the cut part has at most max_length characters.
C19_BoundedForNonBlank ==
    (entry.op = "create_fallback_summary" /\ ~Blank(entry.article_text)) =>
      LET text == Strip(entry.article_text)
          m == entry.max_length
          cut == Len(text) > m /\ ~FitsInTwoSentences(text, m)
      IN /\ Len(ret.val.str) <= m + 3
         /\ ~cut => Len(ret.val.str) <= m
         /\ cut => /\ EndsWithEllipsis(ret.val.str)
                    /\ Len(ret.val.str) - 3 <= m

\* a text of seven letters cut at 4: seven characters come back
C19_Witness ==
    /\ entry.op = "create_fallback_summary"
    /\ entry.article_text = <<"a", "a", "a", "a", "a", "a", "a">>
    /\ entry.max_length = 4
    /\ Len(ret.val.str) = 7 /\ EndsWithEllipsis(ret.val.str)

\* the max_attempts and base_delay a decorated function runs with
EffectiveAttempts == with_retry_max_attempts(entry.max_attempts)
EffectiveDelay == with_retry_base_delay(entry.base_delay)

\* the invocations after which with_retry has to sleep: the retryable
\* failures that are not the last attempt
FailuresBeforeLast ==
    {i \in DOMAIN ext : FailedRetryably(i) /\ i < EffectiveAttempts}

\* C16: with_retry sleeps only between attempts.  The k-th sleep follows the
\* k-th retryable failure, k < max_attempts, and lasts base_delay * 2^(k-1)
\* with exponential backoff and base_delay without; the (k+1)-th invocation
\* comes after the k-th sleep; nothing sleeps after the last attempt, a
\* fatal error or a success, so n exhausted attempts sleep n - 1 times.
C16_SleepsBetweenAttempts ==
    entry.op = "with_retry" =>
      /\ \A k \in DOMAIN sleeps :
            /\ sleeps[k].by = "with_retry"
            /\ sleeps[k].delay = IF entry.exponential_backoff
                                  THEN EffectiveDelay * 2 ^ (k - 1)
                                  ELSE EffectiveDelay
            /\ k \in FailuresBeforeLast
      /\ Len(ext) <= Len(sleeps) + 1
      /\ Done =>
            /\ Len(sleeps) = Cardinality(FailuresBeforeLast)
            /\ (Len(ext) = EffectiveAttempts /\ \A i \in DOMAIN ext : FailedRetryably(i))
                  => Len(sleeps) = EffectiveAttempts - 1

\* three attempts of delay 3 all time out: sleeps of 3 and 6 seconds
C16_Witness ==
    /\ Done /\ entry.op = "with_retry"
    /\ entry.max_attempts = 3 /\ entry.base_delay = 3 /\ entry.exponential_backoff
    /\ Len(ext) = 3 /\ \A i \in DOMAIN ext : FailedRetryably(i)
    /\ Len(sleeps) = 2 /\ sleeps[1].delay = 3 /\ sleeps[2].delay = 6

\* C17: with_retry returns the value of the first successful attempt and
\* does not invoke the function afterwards: when attempts 1..k-1 fail with
\* retryable errors and attempt k <= max_attempts succeeds, the function is
\* invoked exactly k times, its value comes back and no error is raised.
C17_FirstSuccessReturned ==
    (entry.op = "with_retry"
       /\ \E k \in DOMAIN ext : ~Failed(k)) =>
      LET k == CHOOSE i \in DOMAIN ext : ~Failed(i)
      IN /\ Len(ext) = k
         /\ k <= EffectiveAttempts
         /\ \A i \in 1 .. k - 1 : FailedRetryably(i)
         /\ Done => ret = ext[k].out
         /\ ret.kind # "exc"

\* two timeouts, then a value on the third and last attempt
C17_Witness ==
    /\ Done /\ entry.op = "with_retry" /\ EffectiveAttempts = 3
    /\ Len(ext) = 3 /\ FailedRetryably(1) /\ FailedRetryably(2) /\ ~Failed(3)
    /\ ret = ext[3].out /\ ret.kind = "value"

SummaryOps == {"generate_summary", "generate_summary_with_sentiment"}

GaveNothing(i) == Failed(i) \/ ~ext[i].out.val.content

\* the summarization was skipped, or every invocation of the LLM failed
SkippedOrFailedCompletely == \A i \in DOMAIN ext : GaveNothing(i)

\* C21: whenever summarization is skipped or fails completely (every
\* attempt in every language fails) the summary of generate_summary and of
\* generate_summary_with_sentiment is create_fallback_summary(article_text)
\* and the sentiment of generate_summary_with_sentiment is neutral.
C21_SubstituteSummary ==
    (Done /\ entry.op \in SummaryOps /\ SkippedOrFailedCompletely) =>
      /\ ret.kind = "value"
      /\ ret.val.summary =
            create_fallback_summary(entry.text, FALLBACK_SUMMARY_MAX_LENGTH)
      /\ entry.op = "generate_summary_with_sentiment" => ret.val.sentiment = "neutral"

\* three invocations for 'hi' and three for 'en', every one of them failed
\* and at least one by an empty response
C21_Witness ==
    /\ Done /\ entry.op = "generate_summary_with_sentiment"
    /\ entry.language = HI /\ entry.transient = "empty"
    /\ Len(ext) = 6 /\ \A i \in DOMAIN ext : GaveNothing(i)
    /\ \E i \in DOMAIN ext : ~Failed(i)
    /\ ret.val.summary = entry.text /\ ret.val.sentiment = "neutral"

\* the records log_ai_service_error wrote
AIServiceLog == SelectSeq(log, LAMBDA r : r.cat \in {"ai_service", "rate_limit"})

RetryableFailures == {i \in DOMAIN ext : FailedRetryably(i)}

\* C22: with_retry writes exactly one AI-service record for every retryable
\* failure of the wrapped function, the last one before AIServiceError
\* included, and the record of the k-th attempt carries retry count k and
\* the error of that attempt; nothing else is logged.
C22_OneRecordPerRetryableFailure ==
    entry.op = "with_retry" =>
      /\ log = AIServiceLog
      /\ \A k \in DOMAIN log :
            /\ k \in RetryableFailures
            /\ log[k].retry_count = k
            /\ log[k].error = ext[k].out.exc
      /\ Done => Len(log) = Cardinality(RetryableFailures)
      /\ (Done /\ ret.kind = "exc" /\ ret.exc.type = "AIServiceError") =>
            /\ Len(log) = EffectiveAttempts
            /\ log[Len(log)].error = ext[Len(ext)].out.exc

\* three rate-limit failures with fallback logging off: records 1, 2, 3
C22_Witness ==
    /\ Done /\ entry.op = "with_retry" /\ ~cfg.ENABLE_FALLBACK_LOGGING
    /\ Len(ext) = 3 /\ \A i \in DOMAIN ext : FailedRetryably(i)
    /\ ret.exc.type = "AIServiceError"
    /\ Len(log) = 3 /\ log[3].retry_count = 3 /\ log[3].cat = "rate_limit"

\* C23 as stated: with enable_fallback_logging false none of the four
\* logging calls writes a record.
C23_NothingLoggedWhenDisabled ==
    ~cfg.ENABLE_FALLBACK_LOGGING => log = <<>>

IsPrefix(a, b) == Len(a) <= Len(b) /\ SubSeq(b, 1, Len(a)) = a

\* C24: enable_fallback_logging does not influence control flow.  The same
\* call made with the switch on and with it off, the unit of work failing
\* in the same pattern, makes the same invocations in the same order (of
\* the wrapped functions and of the unit of work, with the same arguments),
\* sleeps the same and ends in the same result or exception.
C24_LoggingSwitchKeepsControlFlow ==
    SecondRun =>
      /\ IsPrefix(calls, entry.first.calls)
      /\ IsPrefix(ext, entry.first.ext)
      /\ IsPrefix(sleeps, entry.first.sleeps)
      /\ Done => /\ calls = entry.first.calls
                 /\ ext = entry.first.ext
                 /\ sleeps = entry.first.sleeps
                 /\ ret = entry.first.ret

\* both invocations of a function decorated with with_language_fallback
\* fail, once with records written and once without
C24_Witness ==
    /\ SecondRun /\ Done /\ entry.op = "with_language_fallback"
    /\ Len(ext) = 2 /\ Failed(1) /\ Failed(2)
    /\ Len(log) # Len(entry.first.log)
    /\ ret = entry.first.ret /\ ret.exc.type = "LanguageError"

\* the invocations of the function under with_language_fallback
WrappedCalls == SelectSeq(calls, LAMBDA c : c.by = "language_func")

\* where the caller put the language: 0 when by name or not at all
LanguagePosition == IF entry.kw.has THEN 0 ELSE Len(entry.args)

\* the language an invocation hands to the wrapped function
InvokedLanguage(c) ==
    IF c.kw.has THEN c.kw.language
    ELSE IF LanguagePosition > 0 THEN c.args[LanguagePosition]
    ELSE NoneVal

\* the arguments of an invocation other than the language are the caller's
OtherArgumentsKept(c) ==
    /\ Len(c.args) = Len(entry.args)
    /\ \A i \in DOMAIN c.args : i # LanguagePosition => c.args[i] = entry.args[i]
    /\ c.kw.has = entry.kw.has

\* C25 as stated: however the language is passed to a function decorated
\* with with_language_fallback, by name or at any position, every invocation
\* of the function carries a supported language code, and no argument other
\* than the language is altered.
C25_InvokedWithSupportedLanguage ==
    entry.op = "with_language_fallback" =>
      \A i \in DOMAIN WrappedCalls :
         /\ InvokedLanguage(WrappedCalls[i]) \in SUPPORTED_LANGUAGES
         /\ OtherArgumentsKept(WrappedCalls[i])

\* the part of C25 that the code keeps: a language passed by name or as the
\* third positional argument, padded codes apart
C25_ThirdPositionOrByName ==
    (entry.op = "with_language_fallback"
       /\ (entry.kw.has \/ LanguagePosition = 3)
       /\ entry.language # <<" ", "h", "i", " ">>) =>
      \A i \in DOMAIN WrappedCalls :
         /\ InvokedLanguage(WrappedCalls[i]) \in SUPPORTED_LANGUAGES
         /\ OtherArgumentsKept(WrappedCalls[i])

\* C26: with_language_fallback invokes the wrapped function at most twice.
\* A second invocation comes only after the first one failed, only when the
\* first language is not the default and language fallback is enabled, and
\* it carries the default language.  When the last invocation fails,
\* LanguageError and no other exception is raised; when it succeeds its
\* value is returned.
C26_AtMostTwoInvocations ==
    entry.op = "with_language_fallback" =>
      /\ Len(WrappedCalls) <= 2
      /\ Len(ext) <= Len(WrappedCalls)
      /\ Len(WrappedCalls) = 2 =>
            /\ Failed(1)
            /\ InvokedLanguage(WrappedCalls[1]) # DEFAULT_LANGUAGE
            /\ cfg.LANGUAGE_FALLBACK_ENABLED
            /\ InvokedLanguage(WrappedCalls[2]) = DEFAULT_LANGUAGE
            /\ OtherArgumentsKept(WrappedCalls[2])
      /\ Done =>
            /\ Len(ext) = Len(WrappedCalls)
            /\ IF Failed(Len(ext))
               THEN ret.kind = "exc" /\ ret.exc.type = "LanguageError"
               ELSE ret = ext[Len(ext)].out

\* 'hi' as third positional argument: the second invocation carries 'en'
\* there, fails as the first did, and LanguageError comes out
C26_Witness ==
    /\ Done /\ entry.op = "with_language_fallback"
    /\ entry.args = <<<<"a">>, <<"b">>, HI>> /\ ~entry.kw.has
    /\ Len(WrappedCalls) = 2 /\ Failed(1) /\ Failed(2)
    /\ WrappedCalls[1].args[3] = HI /\ WrappedCalls[2].args[3] = EN
    /\ ret.kind = "exc" /\ ret.exc.type = "LanguageError"

\* an invocation of the TTS engine that wrote the audio file
Spoke(i) == ~Failed(i) /\ ext[i].out.val.bool

\* C27: text_to_speech never raises.  For empty, whitespace-only or None
\* text it returns None and the TTS engine is not invoked; when generation
\* fails in every language and attempt it returns None; it returns an audio
\* URL only when a generation attempt succeeded.
C27_TextToSpeechNeverRaises ==
    entry.op = "text_to_speech" =>
      /\ Blank(entry.text) => ext = <<>> /\ calls = <<>>
      /\ Done =>
            /\ ret.kind = "value"
            /\ Blank(entry.text) => ret = RetValue(PyNone)
            /\ (\A i \in DOMAIN ext : ~Spoke(i)) => ret = RetValue(PyNone)
            /\ ret # RetValue(PyNone) =>
                  /\ "url" \in DOMAIN ret.val
                  /\ ext # <<>> /\ Spoke(Len(ext))

\* two attempts for 'hi' and two for 'en', none of which wrote a file
C27_Witness ==
    /\ Done /\ entry.op = "text_to_speech"
    /\ entry.text = <<"a">> /\ entry.language = HI
    /\ Len(ext) = 4 /\ \A i \in DOMAIN ext : ~Spoke(i)
    /\ ret = RetValue(PyNone)

\* the outcome of the i-th invocation a call made
OutcomeIn(c, i) == c.ext[i].out
RetryableIn(c, i) ==
    OutcomeIn(c, i).kind = "exc" /\ ~HasFatalIndicator(OutcomeIn(c, i).exc)

\* what a call of with_retry does when it runs alone, by the outcomes of
\* its own invocations: it repeats after retryable failures only, up to
\* max_attempts times, sleeps between attempts, and ends with the value or
\* the fatal error of its last invocation, or with AIServiceError
AloneWithRetry(c) ==
    LET n == with_retry_max_attempts(c.entry.max_attempts)
        k == Len(c.ext)
    IN /\ k <= n
       /\ \A i \in 1 .. k - 1 : RetryableIn(c, i)
       /\ Len(c.sleeps) <= Cardinality({i \in 1 .. k : RetryableIn(c, i) /\ i < n})
       /\ (c.stack = <<>>) =>
             /\ k >= 1
             /\ Len(c.sleeps) = Cardinality({i \in 1 .. k : RetryableIn(c, i) /\ i < n})
             /\ c.ret = IF ~RetryableIn(c, k) THEN OutcomeIn(c, k)
                        ELSE RetExc(AllRetriesFailed(OutcomeIn(c, k).exc))
             /\ RetryableIn(c, k) => k = n

\* ... and a call of handle_language_operation: one invocation for each
\* language of the chain in order, up to the first that succeeds
AloneLanguageOperation(c) ==
    LET chain == get_language_fallback_chain(c.entry.language)
        k == Len(c.ext)
    IN /\ k <= Len(chain)
       /\ \A i \in 1 .. k : c.ext[i].language = chain[i]
       /\ \A i \in 1 .. k - 1 : OutcomeIn(c, i).kind = "exc"
       /\ (c.stack = <<>>) =>
             /\ k >= 1
             /\ c.ret = IF OutcomeIn(c, k).kind = "value" THEN OutcomeIn(c, k)
                        ELSE RetExc(AllLanguageFallbacksFailed("test_op",
                                                               OutcomeIn(c, k).exc))
             /\ OutcomeIn(c, k).kind = "exc" => k = Len(chain)

AsAlone(c) ==
    /\ c.entry.op = "with_retry" => AloneWithRetry(c)
    /\ c.entry.op = "handle_language_operation" => AloneLanguageOperation(c)

\* C28: concurrent operations share no retry or fallback state.  In every
\* interleaving of two calls through with_retry and
\* handle_language_operation on the same wrapped function, each call makes
\* the attempts and obtains the outcome that its own invocations give it
\* when it runs alone, whatever the other call does and wherever the
\* threads are switched.
C28_EachCallAsAlone ==
    "parked" \in DOMAIN cfg => AsAlone(Running) /\ AsAlone(cfg.parked)

\* two calls of the same decorated function are both inside their retry
\* loop: one has failed once and is stopped, the other one ends exhausted
C28_Witness ==
    /\ "parked" \in DOMAIN cfg
    /\ entry.op = "with_retry" /\ cfg.parked.entry.op = "with_retry"
    /\ cfg.parked.stack # <<>> /\ Len(cfg.parked.ext) = 1
    /\ stack = <<>> /\ Len(ext) = 2 /\ ret.kind = "exc"
    /\ ret.exc.type = "AIServiceError"

\* calls that take the stored preference away
Clears == {"clear_language_preference", "clear_session"}

LastClear == Max({0} \cup {i \in DOMAIN calls : calls[i].op \in Clears})

\* the calls of set_language_preference since the last clear that returned True
SetsSinceClear ==
    {i \in DOMAIN calls : /\ i > LastClear
                          /\ calls[i].op = "set_language_preference"
                          /\ calls[i].result = PyBool(TRUE)}

PreferenceToExpect ==
    IF SetsSinceClear = {}
    THEN DEFAULT_LANGUAGE
    ELSE Strip(Lower(calls[Max(SetsSinceClear)].language))

\* an unsupported, empty or None code (or one that is no string)
Unsupported(language_code) ==
    ~IsStr(language_code) \/ Strip(Lower(language_code)) \notin SUPPORTED_LANGUAGES

StoredAbsentOrNormalized ==
    LANGUAGE_PREFERENCE_KEY \in DOMAIN session =>
       session[LANGUAGE_PREFERENCE_KEY] \in SUPPORTED_LANGUAGES

RejectedSetChangesNothing ==
    (calls' # calls /\ entry'.op = "set_language_preference"
        /\ Unsupported(entry'.language))
      => (ret'.val = PyBool(FALSE) /\ session' = session)

\* C29: after any sequence of set_language_preference,
\* clear_language_preference, initialize_session_defaults and clear_session
\* calls the stored preference is absent or a normalized supported code, and
\* get_language_preference returns the code of the most recent successful set
\* since the last clear, else the default; set_language_preference with an
\* unsupported, empty or None code returns False and leaves the stored
\* preference as it was.
C29_SessionPreference ==
    /\ [](StoredAbsentOrNormalized
            /\ get_language_preference(session) = PreferenceToExpect)
    /\ [][RejectedSetChangesNothing]_vars

\* " hi " was set, "xx" was refused, and get_language_preference gave "hi"
C29_Witness ==
    /\ Len(calls) >= 3
    /\ calls[1] = SessionCall("set_language_preference", <<" ", "h", "i", " ">>, PyBool(TRUE))
    /\ calls[2] = SessionCall("set_language_preference", <<"x", "x">>, PyBool(FALSE))
    /\ calls[3] = SessionCall("get_language_preference", NoneVal, PyStr(HI))
    /\ session[LANGUAGE_PREFERENCE_KEY] = HI

\* a turn of the conversation has been taken
TurnTaken == calls' # calls

\* the language is not confirmed in the state the turn starts from
Unconfirmed(state) == state = NoConversation \/ ~state.language_confirmed

StageFollowsConfirmation ==
    conversation # NoConversation =>
       (conversation.language_confirmed <=> conversation.stage # "language_selection")

SelectionUntilLanguageDetected ==
    (TurnTaken /\ Unconfirmed(conversation)) =>
       IF detect_language_preference(entry'.text) # NoneVal
       THEN /\ conversation'.stage = "collecting"
            /\ conversation'.language_confirmed
            /\ conversation'.language = detect_language_preference(entry'.text)
       ELSE /\ conversation'.stage = "language_selection"
            /\ ~conversation'.language_confirmed

LanguageKept ==
    (TurnTaken /\ ~Unconfirmed(conversation)) =>
       /\ conversation'.language = conversation.language
       /\ conversation'.language_confirmed

\* C30: a conversation starts in stage language_selection with
\* language_confirmed false and stays there until an input with a detectable
\* language arrives, which moves it to stage collecting with
\* language_confirmed true; from then on the language never changes, whatever
\* the further turns are (new topics, repeated topics, stop words).
C30_LanguageSelectedOnce ==
    /\ []StageFollowsConfirmation
    /\ [][SelectionUntilLanguageDetected /\ LanguageKept]_vars

\* no language in "ai"; "Hindi" confirms hi; "mr" is then a topic and "no"
\* starts the search, the language still being hi
C30_Witness ==
    /\ calls = <<<<"a", "i">>, <<"H", "i", "n", "d", "i">>, MR, <<"n", "o">>>>
    /\ conversation # NoConversation
    /\ conversation.language = HI
    /\ conversation.stage = "searching"
    /\ conversation.topics = <<MR>>

\* the input of the turn is a stop word
StopWordGiven == Lower(Strip(entry'.text)) \in StopWords

\* the stage stored in the state the turn starts from
StoredStage(state) == IF state = NoConversation THEN "language_selection" ELSE state.stage

StoredTopics(state) == IF state = NoConversation THEN <<>> ELSE state.topics

SearchOnlyOnStopWordWithTopics ==
    TurnTaken =>
      /\ (conversation'.stage = "searching") <=> (conversation'.next_action = "search")
      /\ conversation'.stage = "searching" =>
            /\ StoredStage(conversation) = "collecting"
            /\ StopWordGiven
            /\ StoredTopics(conversation) # <<>>
      /\ (StoredStage(conversation) = "collecting" /\ StopWordGiven
            /\ StoredTopics(conversation) = <<>>)
           => conversation'.stage = "collecting"

SearchingHasTopics ==
    conversation # NoConversation =>
      /\ conversation.stage = "searching" => conversation.topics # <<>>
      /\ should_search_news(conversation) <=> conversation.stage = "searching"

\* C31: the conversation reaches stage searching (next_action = search) only
\* from stage collecting on a stop word with at least one collected topic; a
\* stop word with no topics keeps the stage at collecting; so after any
\* sequence of turns stage = searching implies that topics is not empty, and
\* should_search_news is true exactly in that case.
C31_SearchingOnlyWithTopics ==
    /\ []SearchingHasTopics
    /\ [][SearchOnlyOnStopWordWithTopics]_vars

\* "no" with nothing collected kept the stage; "tv" and then "N" started the
\* search
C31_Witness ==
    /\ calls = <<MR, <<"n", "o">>, <<"t", "v">>, <<"N">>>>
    /\ conversation # NoConversation
    /\ conversation.stage = "searching"
    /\ conversation.topics = <<<<"t", "v">>>>
    /\ should_search_news(conversation)

OverRetry == entry.op = "handle_language_operation_over_retry"

\* the attempts made in the default language and in another one
DefaultAttempts == {i \in DOMAIN ext : ext[i].language = DEFAULT_LANGUAGE}
RequestedAttemptsMade == DOMAIN ext \ DefaultAttempts

\* the requested language is a supported one other than the default
RequestedOther ==
    /\ IsStr(entry.language)
    /\ Strip(Lower(entry.language)) \in SUPPORTED_LANGUAGES \ {DEFAULT_LANGUAGE}

\* the attempts in the requested language ended in failure: the last one
\* failed fatally, or all max_attempts of them failed
RequestedEndedInFailure ==
    LET last == Max(RequestedAttemptsMade)
    IN \/ FailedFatally(last)
       \/ /\ Cardinality(RequestedAttemptsMade) = EffectiveAttempts
          /\ \A i \in RequestedAttemptsMade : FailedRetryably(i)

\* C32: in handle_language_operation over a with_retry function every
\* attempt in the requested language happens before any attempt in the
\* default language, and the default language is attempted only after the
\* requested language ended in failure (retries exhausted or a fatal error).
C32_RequestedBeforeDefault ==
    OverRetry =>
      /\ \A i \in RequestedAttemptsMade, j \in DefaultAttempts : i < j
      /\ (RequestedOther /\ ext # <<>>) => 1 \in RequestedAttemptsMade
      /\ (RequestedAttemptsMade # {} /\ DefaultAttempts # {}) => RequestedEndedInFailure

\* two attempts in hi time out, then the second attempt in en succeeds
C32_Witness ==
    /\ Done /\ OverRetry /\ entry.language = HI /\ entry.max_attempts = 2
    /\ Len(ext) = 4
    /\ ext[1].language = HI /\ FailedRetryably(1)
    /\ ext[2].language = HI /\ FailedRetryably(2)
    /\ ext[3].language = EN /\ FailedRetryably(3)
    /\ ext[4].language = EN /\ ~Failed(4)
    /\ ret.kind = "value"

Started == entry.op # "none"

\* the errors the wrappers raise themselves
DistinguishedErrors == {"AIServiceError", "LanguageError", "SentimentAnalysisError"}

\* with_retry hands on the fatal error of the unit of work as it is
FatalErrorHandedOn ==
    /\ entry.op = "with_retry"
    /\ ext # <<>> /\ FailedFatally(Len(ext))
    /\ ret.exc = ext[Len(ext)].out.exc

\* C33 as stated: every call of with_retry, handle_language_operation,
\* analyze_sentiment, generate_summary_with_sentiment and text_to_speech
\* ends with a result, a default value or one of the distinguished errors.
C33_EndsWithResultOrDistinguishedError ==
    Done => (ret.kind = "value" \/ ret.exc.type \in DistinguishedErrors)

\* C33, amended: every such call eventually terminates under every pattern
\* of external-call failures, with a result, a default value, one of the
\* distinguished errors, or, for with_retry, the fatal error of the unit of
\* work handed on unchanged.
C33_Terminates ==
    /\ [](Started => <>Done)
    /\ [](Done => \/ ret.kind = "value"
                  \/ ret.exc.type \in DistinguishedErrors
                  \/ FatalErrorHandedOn)

\* handle_language_operation over with_retry came to its end after four
\* failed attempts, with LanguageError
C33_Witness ==
    /\ Done /\ OverRetry /\ entry.language = HI /\ entry.max_attempts = 2
    /\ Len(ext) = 4 /\ \A i \in DOMAIN ext : FailedRetryably(i)
    /\ ret.kind = "exc" /\ ret.exc.type = "LanguageError"

\* the URL of an audio file tagged with a language
AudioUrl(language) == [url |-> <<"/static/audio/">> \o AudioFilename(language)]

\* C34: the language tag in the audio URL returned by text_to_speech is the
\* language in which the audio was generated, also when generation failed
\* for the requested language and succeeded for the default language.
C34_UrlTagIsGeneratedLanguage ==
    (Done /\ entry.op = "text_to_speech" /\ ret.kind = "value" /\ ret.val # PyNone)
        => /\ ext # <<>> /\ Spoke(Len(ext))
           /\ ret.val = AudioUrl(ext[Len(ext)].language)

NoDuplicate(s) == \A i, j \in DOMAIN s : s[i] = s[j] => i = j

\* the topics hold no duplicate, no empty string and no stop word
TopicsWellFormed ==
    LET topics == StoredTopics(conversation)
    IN /\ NoDuplicate(topics)
       /\ \A i \in DOMAIN topics :
            /\ topics[i] # <<>>
            /\ Strip(topics[i]) = topics[i]
            /\ Lower(topics[i]) \notin StopWords

\* a turn leaves the topics as they are or appends the trimmed input, and it
\* appends only in stage collecting
TopicsOnlyAppended ==
    TurnTaken =>
      \/ StoredTopics(conversation') = StoredTopics(conversation)
      \/ /\ StoredTopics(conversation') =
               Append(StoredTopics(conversation), Strip(entry'.text))
         /\ StoredStage(conversation) = "collecting"

\* C35: over any sequence of conversation turns the topics list contains no
\* duplicate, no empty string and no stop word; process_conversation only
\* ever appends the current trimmed input to it, in stage collecting, and
\* never removes or reorders topics.
C35_TopicsListGrowsByNewInputs ==
    /\ []TopicsWellFormed
    /\ [][TopicsOnlyAppended]_vars

\* a padded topic is stored trimmed, its repetition and a stop word are not
\* added, a second topic is appended behind the first
C35_Witness ==
    /\ calls = <<MR, <<" ", "a", "i", " ">>, <<"a", "i">>, <<"t", "v">>>>
    /\ conversation # NoConversation
    /\ conversation.topics = <<<<"a", "i">>, <<"t", "v">>>>

\* C36: in a conversation with confirmed language, every non-empty input
\* that is not a stop word is in the topics list after the turn, newly added
\* or already present, also when the turn is taken while the stored stage is
\* searching.
C36_InputBecomesTopic ==
    [][(TurnTaken /\ ~Unconfirmed(conversation)
          /\ Strip(entry'.text) # <<>> /\ ~StopWordGiven)
         => Strip(entry'.text) \in Range(StoredTopics(conversation'))]_vars

\* the default language is invoked after a failure in another language
DefaultAfterOtherFailed ==
    \E i, j \in DOMAIN ext :
       /\ i < j /\ Failed(i)
       /\ ext[i].language # get_default_language
       /\ ext[j].language = get_default_language

\* C37: with language_fallback_enabled set to false, no language-fallback
\* path invokes the unit of work with the default language after a failure
\* in a different requested language: this holds for
\* handle_language_operation as well as for the with_language_fallback
\* decorator.
C37_NoFallbackWhenDisabled ==
    (entry.op \in {"handle_language_operation", "with_language_fallback"}
        /\ ~cfg.LANGUAGE_FALLBACK_ENABLED) => ~DefaultAfterOtherFailed

\* the base_delay a call of the decorated unit of work asks for
RequestedDelay ==
    IF entry.base_delay = NoneInt THEN RETRY_DELAY ELSE entry.base_delay

\* C38: with_retry uses an explicitly passed max_attempts and base_delay
\* exactly as given and takes the configured defaults only when the argument
\* is omitted; an explicit base_delay of 0 gives zero-length sleeps and an
\* explicit max_attempts of 0 is not replaced by the configured default.
C38_ExplicitArgumentsAsGiven ==
    entry.op = "with_retry" =>
      /\ Len(ext) <= RequestedAttempts
      /\ \A k \in DOMAIN sleeps :
           sleeps[k].delay = retry_delay(RequestedDelay, k - 1, entry.exponential_backoff)

\* the requests committed whose turn added their message as a new topic
TopicAdders ==
    {i \in DOMAIN ext : ext[i].out.val.response[2] = "topic_added"}

\* every request committed so far set the language or added a topic
OnlySetAndAdd ==
    \A i \in DOMAIN ext :
       ext[i].out.val.response[2] \in {"language_set", "topic_added"}

\* C39: concurrent /chat requests of the same session lose no topic: after

\* every interleaving of two requests that each add a distinct new topic in
\* stage collecting, the topics stored for the conversation session contain
\* both topics.
C39_NoTopicLost ==
    (entry.op = "chat" /\ stack = <<>> /\ OnlySetAndAdd) =>
       \A i \in TopicAdders :
          ext[i].out.val.user_input \in Range(get_topics(conversation))

====
